---------------------------- MODULE Spec2Model ----------------------------
(***************************************************************************)
(* Model of src/dante/dante_wrapper.c: the Dante API wrapper's device      *)
(* discovery subsystem (browse session lifecycle, network-changed callback *)
(* that rebuilds the device table, bounded address resolution, and the     *)
(* host-facing accessors).                                                 *)
(*                                                                         *)
(* The vendor SDK is a black box.  Its answers are inputs: the provider's  *)
(* device list is a sequence of raw devices, each carrying its metadata    *)
(* and the answers the SDK gives when the wrapper resolves it.             *)
(*                                                                         *)
(* A host call is one action, except the two that run the rebuild          *)
(* (dante_refresh_device_scan, dante_process_events_briefly): the rebuild  *)
(* calls dante_runtime_process inside its poll loop, and that call is      *)
(* where the SDK delivers the network-changed callback, so a rebuild is    *)
(* split at exactly those calls.                                           *)
(***************************************************************************)
EXTENDS Integers, Sequences, FiniteSets, TLC

(***************************************************************************)
(* Program constants                                                       *)
(***************************************************************************)
MAX_DEVICES == 32

max_wait_attempts == 30

PumpIterations == 5

(***************************************************************************)
(* Bounds of the model                                                     *)
(***************************************************************************)
\* Longest device list the provider reports.
MaxProviderDevices == 33

\* Number of DAPI instances dapi_new hands out over a run.
MaxDapi == 2

NULL == 0

(***************************************************************************)
(* Text formatting                                                         *)
(***************************************************************************)
Digit(d) == CASE d = 0 -> "0" [] d = 1 -> "1" [] d = 2 -> "2" [] d = 3 -> "3"
              [] d = 4 -> "4" [] d = 5 -> "5" [] d = 6 -> "6" [] d = 7 -> "7"
              [] d = 8 -> "8" [] d = 9 -> "9"

RECURSIVE FormatU(_)
\* printf "%u" of a non-negative value.
FormatU(n) == IF n < 10 THEN Digit(n) ELSE FormatU(n \div 10) \o Digit(n % 10)

\* printf "%d".
FormatD(n) == IF n < 0 THEN "-" \o FormatU(0 - n) ELSE FormatU(n)

\* ntohl as it is on a big-endian host: the value unchanged.
ntohlBigEndian(v) == v

\* ntohl on the little-endian target (AUD_PLATFORM "armv7"): byte swap.
ntohl(v) ==
    ((v % 256) * 16777216) + (((v \div 256) % 256) * 65536)
  + (((v \div 65536) % 256) * 256) + ((v \div 16777216) % 256)

\* "%u.%u.%u.%u" of (ip>>24)&0xFF, (ip>>16)&0xFF, (ip>>8)&0xFF, ip&0xFF.
FormatIPv4(ip_addr) ==
    FormatU((ip_addr \div 16777216) % 256) \o "." \o
    FormatU((ip_addr \div 65536) % 256) \o "." \o
    FormatU((ip_addr \div 256) % 256) \o "." \o
    FormatU(ip_addr % 256)

HexDigit(d) == CASE d < 10 -> Digit(d)
                 [] d = 10 -> "a" [] d = 11 -> "b" [] d = 12 -> "c"
                 [] d = 13 -> "d" [] d = 14 -> "e" [] d = 15 -> "f"

RECURSIVE dante_id64_to_dnssd_text(_)
\* An id64 (a sequence of bytes) as hexadecimal text.
dante_id64_to_dnssd_text(id) ==
    IF id = << >> THEN ""
    ELSE HexDigit(Head(id) \div 16) \o HexDigit(Head(id) % 16)
         \o dante_id64_to_dnssd_text(Tail(id))

(***************************************************************************)
(* The provider's raw devices.  A text field is <<text>>, or Absent where   *)
(* the SDK returns a NULL pointer.                                         *)
(*   open_ok     dr_device_open_remote succeeds                            *)
(*   resolve_at  first poll at which dr_device_get_state leaves RESOLVING  *)
(*   final_state the state from that poll on                               *)
(*   addr_ok     dr_device_get_address succeeds                            *)
(*   host        the address the SDK returns (network byte order)          *)
(***************************************************************************)
Absent == << >>

DevQuick ==
    [handle |-> 1, name |-> <<"stagebox">>, router_info |-> <<"ULTIMOX4">>,
     mf_id |-> Absent, model_id |-> Absent, default_name |-> Absent,
     router_version |-> <<4, 2, 1>>,
     open_ok |-> TRUE, resolve_at |-> 0, final_state |-> "RESOLVED",
     addr_ok |-> TRUE, host |-> 83886090]

DevActive ==
    [handle |-> 1, name |-> <<"console">>, router_info |-> <<"">>,
     mf_id |-> <<170, 187>>, model_id |-> <<204, 221>>, default_name |-> <<"Foo">>,
     router_version |-> Absent,
     open_ok |-> TRUE, resolve_at |-> 2, final_state |-> "ACTIVE",
     addr_ok |-> TRUE, host |-> 100663306]

DevNever ==
    [handle |-> 1, name |-> Absent, router_info |-> Absent,
     mf_id |-> Absent, model_id |-> Absent, default_name |-> Absent,
     router_version |-> Absent,
     open_ok |-> TRUE, resolve_at |-> max_wait_attempts, final_state |-> "RESOLVED",
     addr_ok |-> TRUE, host |-> 117440522]

DevError ==
    [handle |-> 1, name |-> <<"amp">>, router_info |-> Absent,
     mf_id |-> <<1, 2>>, model_id |-> Absent, default_name |-> <<"Bar">>,
     router_version |-> <<1, 0, 0>>,
     open_ok |-> TRUE, resolve_at |-> 1, final_state |-> "ERROR",
     addr_ok |-> TRUE, host |-> 134217738]

DevNoOpen ==
    [handle |-> 1, name |-> <<"ghost">>, router_info |-> Absent,
     mf_id |-> Absent, model_id |-> Absent, default_name |-> <<"">>,
     router_version |-> Absent,
     open_ok |-> FALSE, resolve_at |-> 0, final_state |-> "RESOLVED",
     addr_ok |-> TRUE, host |-> 150994954]

DevAddrFail ==
    [handle |-> 1, name |-> <<"mixer">>, router_info |-> <<"BKLYN2">>,
     mf_id |-> Absent, model_id |-> Absent, default_name |-> Absent,
     router_version |-> <<3, 10, 0>>,
     open_ok |-> TRUE, resolve_at |-> 0, final_state |-> "RESOLVED",
     addr_ok |-> FALSE, host |-> 167772170]

\* db_browse_network_device_at_index returns NULL for this entry.
DevNull == [DevQuick EXCEPT !.handle = NULL]

\* What db_browse_get_network and the network's accessors return: no
\* network object at all, or an ordered device list.
NoNetwork == [has_network |-> FALSE, devices |-> << >>]

Network(devices) == [has_network |-> TRUE, devices |-> devices]

SmallNetworks ==
    { Network(<< >>),
      Network(<<DevQuick, DevActive, DevNever>>),
      Network(<<DevError, DevNull, DevNoOpen, DevAddrFail>>) }

\* A slowly resolving first device followed by quick ones: as many devices
\* as the table holds, and more.
LargeNetworks ==
    { Network([k \in 1..n |-> IF k = 1 THEN DevActive ELSE DevQuick]) :
        n \in MAX_DEVICES..MaxProviderDevices }

Networks == {NoNetwork} \cup SmallNetworks \cup LargeNetworks


(***************************************************************************)
(* The device table                                                        *)
(***************************************************************************)
\* memset(.., 0, ..) of one dante_device_info_t.
ZeroDevice ==
    [id |-> 0, name |-> "", model |-> "", product_version |-> "",
     dante_version |-> "", ip_address |-> "", link_speed |-> 0,
     secondary_ip |-> "", secondary_speed |-> 0, is_valid |-> 0]

Slots == 0..(MAX_DEVICES - 1)

\* g_discovered_devices is kept as the sequence of its slots up to the last
\* one written since the last memset: slot s is element s + 1, and every
\* slot after the sequence's end holds zeroes.
ZeroTable == << >>

\* g_discovered_devices[slot]; a slot past the end of the array reads as
\* zeroes here, and the callers treat the access as undefined.
LoadInfo(table, slot) ==
    IF slot \in Slots /\ slot < Len(table) THEN table[slot + 1] ELSE ZeroDevice

\* A write through `info`: a slot past the end of the array is not part of
\* the table.
StoreInfo(table, slot, rec) ==
    IF slot \notin Slots THEN table
    ELSE [k \in 1..(IF Len(table) > slot THEN Len(table) ELSE slot + 1) |->
             IF k = slot + 1 THEN rec
             ELSE IF k <= Len(table) THEN table[k] ELSE ZeroDevice]

\* The placeholder numbered with the count instead of the id.
DeviceNameFromCount(device, id) ==
    IF device.name # Absent THEN device.name[1]
    ELSE "Unknown Device " \o FormatD(id - 1)

\* The record's name: the provider's, or the placeholder.
DeviceName(device, id) ==
    IF device.name # Absent THEN device.name[1]
    ELSE "Unknown Device " \o FormatD(id)

\* The chain with the identifier pair tried before router_info.
DeviceModelIdsFirst(device) ==
    IF device.mf_id # Absent /\ device.model_id # Absent
        THEN dante_id64_to_dnssd_text(device.mf_id) \o "-"
             \o dante_id64_to_dnssd_text(device.model_id)
    ELSE IF device.router_info # Absent /\ device.router_info[1] # ""
        THEN device.router_info[1]
    ELSE IF device.default_name # Absent
        THEN device.default_name[1]
    ELSE "Unknown Model"

\* The record's model: the priority chain of the callback.
DeviceModel(device) ==
    IF device.router_info # Absent /\ device.router_info[1] # ""
        THEN device.router_info[1]
    ELSE IF device.mf_id # Absent /\ device.model_id # Absent
        THEN dante_id64_to_dnssd_text(device.mf_id) \o "-"
             \o dante_id64_to_dnssd_text(device.model_id)
    ELSE IF device.default_name # Absent
        THEN device.default_name[1]
    ELSE "Unknown Model"

\* The record's dante_version.
DeviceVersion(device) ==
    IF device.router_version # Absent
        THEN FormatU(device.router_version[1]) \o "." \o
             FormatU(device.router_version[2]) \o "." \o
             FormatU(device.router_version[3])
    ELSE "Unknown"

\* The fields the callback fills before it resolves the address; the other
\* fields of the slot keep what they held.
FillInfo(old, device, count) ==
    [old EXCEPT !.id = count + 1,
                !.is_valid = 1,
                !.name = DeviceName(device, count + 1),
                !.model = DeviceModel(device),
                !.dante_version = DeviceVersion(device),
                !.product_version = "N/A"]

\* dr_device_get_state at the given poll.
DeviceStateAt(device, attempt) ==
    IF attempt < device.resolve_at THEN "RESOLVING" ELSE device.final_state

\* The ip_address were the result of dr_device_get_address not looked at.
ResolvedAddressUnchecked(device, state) ==
    IF state \in {"RESOLVED", "ACTIVE"} THEN FormatIPv4(ntohl(device.host))
    ELSE "0.0.0.0"

\* The ip_address chosen after the poll loop ended in `state`.
ResolvedAddress(device, state) ==
    IF state \in {"RESOLVED", "ACTIVE"}
        THEN IF device.addr_ok THEN FormatIPv4(ntohl(device.host))
             ELSE "0.0.0.0"
    ELSE "0.0.0.0"

(***************************************************************************)
(* State                                                                   *)
(***************************************************************************)
VARIABLES
    \* the wrapper's globals
    g_dapi, g_runtime, g_env, g_devices, g_device, g_browse,
    g_device_scan_active, g_background_scanning, g_device_ready,
    g_error_buffer, g_discovered_devices, g_device_count,
    \* the SDK's objects: DAPI instances created so far and those not yet
    \* deleted, live device managers, live browse sessions, open transient
    \* routing connections
    nDapi, dapiLive, mgrLive, sessions, openConns,
    \* the provider's device list and whether a network-changed
    \* notification waits for the session
    net, pending,
    \* the host's position: idle, inside a call, or holding a call's result
    call,
    \* the frames of browse_network_changed_callback in progress
    stack,
    \* a write went past the end of g_discovered_devices; the process died
    oob, crashed,
    \* the callback's position inside one iteration of its device loop, its
    \* local `state`, and how often the iteration has polled, processed
    \* events, slept, opened and closed so far
    resolver,
    \* the dante_device_info_t the host passed to its last successful
    \* dante_get_device_info and still holds
    held,
    \* the SDK's local device: how many handles dr_device_open_local has
    \* given out and nobody closed, the state dr_device_get_state(g_device)
    \* shows, the poll of dante_connect_local_device from which it shows
    \* ACTIVE, and how often that call has polled and slept
    local

globals == <<g_dapi, g_runtime, g_env, g_devices, g_device, g_browse,
             g_device_scan_active, g_background_scanning, g_device_ready,
             g_error_buffer, g_discovered_devices, g_device_count>>

provider == <<nDapi, dapiLive, mgrLive, sessions, openConns, net, pending>>

vars == <<globals, provider, call, stack, oob, crashed, resolver, held,
          local>>

\* call.arg is the call's integer argument (or the pump's loop counter),
\* call.info what the call wrote through its output pointer (<< >> when it
\* wrote nothing; for dante_cleanup, the destructions it made) and call.line
\* the source line of the return statement the call left by.
Idle == [op |-> "none", phase |-> "idle", ret |-> 0, arg |-> 0, info |-> << >>,
         line |-> 0]

\* The host is inside dante_refresh_device_scan or
\* dante_process_events_briefly.
Running(op, iter) ==
    [op |-> op, phase |-> "running", ret |-> 0, arg |-> iter, info |-> << >>,
     line |-> 0]

\* The host holds the result of a finished call.
Returned(op, ret, line) ==
    [op |-> op, phase |-> "returned", ret |-> ret, arg |-> 0, info |-> << >>,
     line |-> line]

\* The iteration's bookkeeping before its first statement.
ResolverAt(pc) ==
    [pc |-> pc, state |-> "NONE", polls |-> 0, processes |-> 0, sleeps |-> 0,
     opens |-> 0, closes |-> 0]

\* No iteration is followed statement by statement.
ResolverOff == ResolverAt("off")

\* No local device has been opened.
LocalOff ==
    [open |-> 0, state |-> "NONE", active_at |-> 0, polls |-> 0, sleeps |-> 0]

\* The host holds no record yet.
NoRecord == [filled |-> FALSE, by_value |-> TRUE, slot |-> 0, rec |-> << >>]

Init ==
    /\ g_dapi = NULL /\ g_runtime = NULL /\ g_env = NULL
    /\ g_devices = NULL /\ g_device = NULL /\ g_browse = NULL
    /\ g_device_scan_active = 0 /\ g_background_scanning = 0
    /\ g_device_ready = 0
    /\ g_error_buffer = ""
    /\ g_discovered_devices = ZeroTable
    /\ g_device_count = 0
    /\ nDapi = 0 /\ dapiLive = {} /\ mgrLive = {} /\ sessions = {}
    /\ openConns = 0
    /\ net \in Networks
    /\ pending = FALSE
    /\ call = Idle
    /\ stack = << >>
    /\ oob = FALSE /\ crashed = FALSE
    /\ resolver = ResolverOff
    /\ held = NoRecord
    /\ local = LocalOff

\* The host is between calls or holds a result: what it can observe.
HostObservable == call.phase \in {"idle", "returned"}


(***************************************************************************)
(* Initialisation and cleanup                                              *)
(***************************************************************************)
\* g_error_buffer holds the format string of the last message: the numbers
\* printed into it (an aud_error_t, an index) are not part of the state.
InitOutcomes == {"ok", "dapi_new_fails", "no_runtime", "no_env", "devices_fail"}

\* dante_init_with_interface (dante_init passes NULL).  The interface name
\* only selects fields of g_browse_config, which the wrapper never reads.
dante_init_with_interface(outcome) ==
    /\ call.phase = "idle"
    /\ nDapi < MaxDapi
    /\ LET d == nDapi + 1 IN
       IF outcome = "dapi_new_fails" THEN
           /\ g_error_buffer' = "Failed to create DAPI: %d"
           /\ call' = Returned("init", -1, 256)
           /\ UNCHANGED <<g_dapi, g_runtime, g_env, g_devices, nDapi,
                          dapiLive, mgrLive>>
       ELSE IF outcome \in {"no_runtime", "no_env"} THEN
           \* dapi_new succeeded; dapi_delete(g_dapi); g_dapi = NULL
           /\ g_env' = IF outcome = "no_env" THEN NULL ELSE d
           /\ g_runtime' = IF outcome = "no_runtime" THEN NULL ELSE d
           /\ g_error_buffer' = "Failed to get runtime/env"
           /\ g_dapi' = NULL
           /\ nDapi' = d
           /\ call' = Returned("init", -1, 266)
           /\ UNCHANGED <<g_devices, dapiLive, mgrLive>>
       ELSE IF outcome = "devices_fail" THEN
           /\ g_env' = d
           /\ g_runtime' = d
           /\ g_error_buffer' = "Failed to create device manager: %d"
           /\ g_dapi' = NULL
           /\ nDapi' = d
           /\ call' = Returned("init", -1, 276)
           /\ UNCHANGED <<g_devices, dapiLive, mgrLive>>
       ELSE
           /\ g_dapi' = d
           /\ g_env' = d
           /\ g_runtime' = d
           /\ g_devices' = d
           /\ nDapi' = d
           /\ dapiLive' = dapiLive \cup {d}
           /\ mgrLive' = mgrLive \cup {d}
           /\ call' = Returned("init", 0, 308)
           /\ UNCHANGED g_error_buffer
    /\ UNCHANGED <<g_device, g_browse, g_device_scan_active,
                   g_background_scanning, g_device_ready,
                   g_discovered_devices, g_device_count,
                   sessions, openConns, net, pending, stack, oob, crashed>>

\* A stop that forgets db_browse_delete: the session stays live.
SessionsNotDeleted(sess, handle) == sess

\* db_browse_delete of the session a handle names.
SessionsWithout(sess, handle) == {s \in sess : s.id # handle}

\* A cleanup that deletes the DAPI instance before what was made from it.
CleanupOrderDapiFirst == <<"dapi", "browse", "device", "devices">>

\* The objects dante_cleanup destroys, in the order of its statements:
\* dante_stop_device_scan, dr_device_close, dr_devices_delete, dapi_delete.
CleanupOrder == <<"browse", "device", "devices", "dapi">>

\* The handle dante_cleanup tests before it destroys an object.
CleanupHandle(object) ==
    CASE object = "browse" -> g_browse
      [] object = "device" -> g_device
      [] object = "devices" -> g_devices
      [] object = "dapi" -> g_dapi

\* The destructions one dante_cleanup makes, in order.
CleanupCalls ==
    SelectSeq(CleanupOrder, LAMBDA object : CleanupHandle(object) # NULL)

\* dante_cleanup.  call.info lists the destructions the call made.
dante_cleanup ==
    /\ call.phase = "idle"
    /\ sessions' = IF g_browse # NULL THEN SessionsWithout(sessions, g_browse)
                   ELSE sessions
    /\ pending' = IF g_browse # NULL THEN FALSE ELSE pending
    /\ g_browse' = NULL
    /\ g_device' = NULL
    /\ mgrLive' = IF g_devices # NULL THEN mgrLive \ {g_devices} ELSE mgrLive
    /\ g_devices' = NULL
    /\ dapiLive' = IF g_dapi # NULL THEN dapiLive \ {g_dapi} ELSE dapiLive
    /\ g_dapi' = NULL
    /\ g_runtime' = NULL
    /\ g_env' = NULL
    /\ g_device_ready' = 0
    /\ g_device_scan_active' = 0
    /\ g_background_scanning' = 0
    /\ g_device_count' = 0
    /\ g_discovered_devices' = ZeroTable
    /\ call' = [Returned("cleanup", 0, 346) EXCEPT !.info = CleanupCalls]
    /\ UNCHANGED <<g_error_buffer, nDapi, openConns, net, stack, oob, crashed>>

\* dante_get_last_error
dante_get_last_error ==
    /\ call.phase = "idle"
    /\ call' = [Returned("get_last_error", 0, 352) EXCEPT !.info = <<g_error_buffer>>]
    /\ UNCHANGED <<globals, provider, stack, oob, crashed>>

(***************************************************************************)
(* Scan lifecycle                                                          *)
(***************************************************************************)
StartOutcomes == {"ok", "new_fails", "max_sockets_fails", "start_fails"}

\* The smallest handle no live session uses.
FreshSession == CHOOSE n \in 1..(Cardinality(sessions) + 1) :
                    \A s \in sessions : s.id # n

\* A start whose failure paths forget db_browse_delete.
SessionsKeptOnFailure(sess, created, outcome) == sess \cup {created}

\* The live sessions after dante_start_device_scan went past db_browse_new:
\* the new session stays only when every later step succeeded.
SessionsAfterStart(sess, created, outcome) ==
    IF outcome = "ok" THEN sess \cup {created} ELSE sess

\* dante_start_device_scan.  db_browse_new on the environment of a deleted
\* DAPI is undefined: the process dies, or (`survive`) the SDK rejects the
\* environment and the call fails.
dante_start_device_scan(outcome, survive) ==
    /\ call.phase = "idle"
    /\ IF g_env = NULL THEN
           /\ g_error_buffer' = "Dante API not initialized"
           /\ call' = Returned("start_scan", -1, 502)
           /\ UNCHANGED <<g_browse, g_device_scan_active, g_background_scanning,
                          sessions, pending, crashed>>
       ELSE IF g_browse # NULL THEN
           /\ call' = Returned("start_scan", 0, 507)
           /\ UNCHANGED <<g_error_buffer, g_browse, g_device_scan_active,
                          g_background_scanning, sessions, pending, crashed>>
       ELSE IF g_env \notin dapiLive /\ ~survive THEN
           /\ crashed' = TRUE
           /\ UNCHANGED <<g_error_buffer, g_browse, g_device_scan_active,
                          g_background_scanning, sessions, pending, call>>
       ELSE IF g_env \notin dapiLive \/ outcome = "new_fails" THEN
           /\ g_error_buffer' = "Failed to create browse object: %d"
           /\ call' = Returned("start_scan", -1, 519)
           /\ UNCHANGED <<g_browse, g_device_scan_active, g_background_scanning,
                          sessions, pending, crashed>>
       ELSE
           LET created == [id |-> FreshSession, env |-> g_env] IN
           /\ sessions' = SessionsAfterStart(sessions, created, outcome)
           /\ IF outcome = "ok" THEN
                  /\ g_browse' = created.id
                  /\ g_device_scan_active' = 1
                  /\ g_background_scanning' = 1
                  /\ call' = Returned("start_scan", 0, 549)
                  /\ UNCHANGED g_error_buffer
              ELSE
                  /\ g_error_buffer' =
                        IF outcome = "max_sockets_fails"
                            THEN "Failed to set max sockets: %d"
                            ELSE "Failed to start browse: %d"
                  /\ g_browse' = NULL
                  /\ call' = Returned("start_scan", -1,
                                      IF outcome = "max_sockets_fails"
                                          THEN 529 ELSE 542)
                  /\ UNCHANGED <<g_device_scan_active, g_background_scanning>>
           /\ UNCHANGED <<pending, crashed>>
    /\ UNCHANGED <<g_dapi, g_runtime, g_env, g_devices, g_device,
                   g_device_ready, g_discovered_devices, g_device_count,
                   nDapi, dapiLive, mgrLive, openConns, net, stack, oob>>

\* A stop that deletes the session and leaves g_background_scanning set.
StopScanKeepingBackgroundFlag ==
    /\ call.phase = "idle"
    /\ IF g_browse = NULL THEN
           /\ call' = Returned("stop_scan", 0, 558)
           /\ UNCHANGED <<g_browse, g_device_scan_active, sessions, pending>>
       ELSE
           /\ sessions' = SessionsWithout(sessions, g_browse)
           /\ g_browse' = NULL
           /\ g_device_scan_active' = 0
           /\ pending' = FALSE
           /\ call' = Returned("stop_scan", 0, 570)
    /\ UNCHANGED <<g_dapi, g_runtime, g_env, g_devices, g_device,
                   g_background_scanning,
                   g_device_ready, g_error_buffer, g_discovered_devices,
                   g_device_count, nDapi, dapiLive, mgrLive, openConns, net,
                   stack, oob, crashed>>

\* dante_stop_device_scan
dante_stop_device_scan ==
    /\ call.phase = "idle"
    /\ IF g_browse = NULL THEN
           /\ call' = Returned("stop_scan", 0, 558)
           /\ UNCHANGED <<g_browse, g_device_scan_active,
                          g_background_scanning, sessions, pending>>
       ELSE
           /\ sessions' = SessionsWithout(sessions, g_browse)
           /\ g_browse' = NULL
           /\ g_device_scan_active' = 0
           /\ g_background_scanning' = 0
           /\ pending' = FALSE
           /\ call' = Returned("stop_scan", 0, 570)
    /\ UNCHANGED <<g_dapi, g_runtime, g_env, g_devices, g_device,
                   g_device_ready, g_error_buffer, g_discovered_devices,
                   g_device_count, nDapi, dapiLive, mgrLive, openConns, net,
                   stack, oob, crashed>>


(***************************************************************************)
(* browse_network_changed_callback                                         *)
(***************************************************************************)
Top == stack[Len(stack)]

SetTop(f) == [stack EXCEPT ![Len(stack)] = f]

\* A frame whose loop starts at the second device of the list.
NewFrameFromSecond ==
    [i |-> 1, device_count |-> Len(net.devices), slot |-> 0, attempt |-> 0,
     phase |-> "loop"]

\* The frame of a callback that just read the device count.
NewFrame == [i |-> 0, device_count |-> Len(net.devices), slot |-> 0, attempt |-> 0,
             phase |-> "loop"]

\* The callback's first lines: memset, g_device_count = 0, and the early
\* return when db_browse_get_network yields NULL.
StackOnEntry(stk) == IF ~net.has_network THEN stk ELSE Append(stk, NewFrame)

\* dante_runtime_process(runtime) runs the network-changed callback of a
\* session browsing on that runtime's environment when a notification
\* waits for it.
Deliverable(runtime) ==
    /\ pending
    /\ runtime \in dapiLive
    /\ \E s \in sessions : s.env = runtime

\* The open transient connections after the dr_device_close that follows a
\* poll loop ended in `state`.
ConnsAfterClose(n, state) == n - 1

\* The callback's effect so far: the table, the count, the open transient
\* connections, whether a write left the array, and where the code stands:
\* at "process" (about to call dante_runtime_process in the poll loop of
\* device frame.i, poll frame.attempt, writing through slot frame.slot) or
\* at "return".
Progress(table, count, conns, wrote_oob, f, at) ==
    [table |-> table, count |-> count, conns |-> conns, oob |-> wrote_oob,
     frame |-> f, at |-> at]

\* The result of dr_device_open_remote taken for a success whatever it is.
OpensAlways(device) == TRUE

\* dr_device_open_remote(g_devices, info->name, ..) succeeds.
Opens(device) == g_devices \in mgrLive /\ device.open_ok

\* The iteration of this device reaches dante_runtime_process: the handle
\* is not NULL, the connection opens and the first poll reads RESOLVING.
Waits(device) ==
    /\ device.handle # NULL
    /\ Opens(device)
    /\ DeviceStateAt(device, 0) = "RESOLVING"

\* The record an iteration leaves when it ends without waiting: the
\* connection did not open, or the first poll ended the poll loop.
Completed(old, device, count) ==
    [FillInfo(old, device, count) EXCEPT
        !.ip_address = IF Opens(device)
                           THEN ResolvedAddress(device, DeviceStateAt(device, 0))
                           ELSE "0.0.0.0",
        !.link_speed = -1]

\* The connections such an iteration leaves open.
LeftOpen(device) ==
    IF Opens(device) THEN ConnsAfterClose(1, DeviceStateAt(device, 0)) ELSE 0

\* The device loop from its head at device f.i, up to the next call of
\* dante_runtime_process or the end of the loop.  Every iteration before
\* that point runs to its end without any other code in between: a NULL
\* handle is skipped, every other device takes the slot g_device_count has
\* reached.
LoopHead(table, count, conns, wrote_oob, f) ==
    LET \* the loop runs while i < device_count && i < MAX_DEVICES
        limit == IF f.device_count < MAX_DEVICES THEN f.device_count
                 ELSE MAX_DEVICES
        dev(k) == net.devices[k + 1]
        waiting == {k \in f.i..(limit - 1) : Waits(dev(k))}
        stop == IF waiting = {} THEN limit
                ELSE CHOOSE k \in waiting : \A j \in waiting : k <= j
        \* the devices that take a slot, in order: the n-th takes count+n-1
        order == SelectSeq([n \in 1..(stop - f.i) |-> f.i + n - 1],
                           LAMBDA k : dev(k).handle # NULL)
        reached == count + Len(order)
        extent == IF order = << >> \/ count >= MAX_DEVICES
                      \/ Len(table) >= reached THEN Len(table)
                  ELSE IF reached > MAX_DEVICES THEN MAX_DEVICES ELSE reached
        filled == [e \in 1..extent |->
                     IF e > count /\ e <= reached
                         THEN Completed(LoadInfo(table, e - 1),
                                        dev(order[e - count]), e - 1)
                         ELSE LoadInfo(table, e - 1)]
        left == conns
                + Cardinality({n \in 1..Len(order) :
                                  LeftOpen(dev(order[n])) = 1})
                - Cardinality({n \in 1..Len(order) :
                                  LeftOpen(dev(order[n])) = 0 - 1})
        past == wrote_oob \/ (order # << >> /\ reached > MAX_DEVICES)
    IN
    IF stop = limit THEN
        Progress(filled, reached, left, past, [f EXCEPT !.i = stop], "return")
    ELSE
        Progress(StoreInfo(filled, reached,
                     FillInfo(LoadInfo(filled, reached), dev(stop), reached)),
                 reached, left + 1, past \/ reached \notin Slots,
                 [f EXCEPT !.i = stop, !.slot = reached, !.attempt = 0],
                 "process")

\* After the poll loop of device f.i ended with `state`: the address,
\* dr_device_close, info->link_speed = -1, g_device_count++, next device.
AfterPoll(table, count, conns, wrote_oob, f, state) ==
    LET ip == ResolvedAddress(net.devices[f.i + 1], state)
        stored == StoreInfo(table, f.slot,
                      [LoadInfo(table, f.slot) EXCEPT
                          !.ip_address = ip, !.link_speed = -1])
    IN LoopHead(stored, count + 1, ConnsAfterClose(conns, state),
                wrote_oob \/ f.slot \notin Slots,
                [f EXCEPT !.i = @ + 1, !.attempt = 0])

\* The poll loop of device f.i from poll f.attempt, up to the next call of
\* dante_runtime_process.
PollLoop(table, count, conns, wrote_oob, f) ==
    LET state == DeviceStateAt(net.devices[f.i + 1], f.attempt) IN
    IF f.attempt >= max_wait_attempts THEN
        AfterPoll(table, count, conns, wrote_oob, f, "RESOLVING")
    ELSE IF state \in {"RESOLVED", "ACTIVE", "ERROR"} THEN
        AfterPoll(table, count, conns, wrote_oob, f, state)
    ELSE
        Progress(table, count, conns, wrote_oob, f, "process")

\* The callback runs from the loop's head to its first call of
\* dante_runtime_process, or to its return.  No other code runs in between.
\* A write past the array either kills the process or goes unnoticed
\* (`survive`).
RebuildRun(survive) ==
    /\ stack # << >>
    /\ Top.phase = "loop"
    /\ LET r == LoopHead(g_discovered_devices, g_device_count, openConns,
                         FALSE, Top)
       IN
       IF r.oob /\ ~survive THEN
           /\ crashed' = TRUE
           /\ UNCHANGED <<g_discovered_devices, g_device_count, openConns,
                          oob, stack>>
       ELSE
           /\ g_discovered_devices' = r.table
           /\ g_device_count' = r.count
           /\ openConns' = r.conns
           /\ oob' = (oob \/ r.oob)
           /\ stack' = IF r.at = "return"
                           THEN SubSeq(stack, 1, Len(stack) - 1)
                           ELSE SetTop([r.frame EXCEPT !.phase = "process"])
           /\ UNCHANGED crashed
    /\ UNCHANGED <<g_dapi, g_runtime, g_env, g_devices, g_device, g_browse,
                   g_device_scan_active, g_background_scanning,
                   g_device_ready, g_error_buffer,
                   nDapi, dapiLive, mgrLive, sessions, net, pending, call>>

\* `if (g_runtime) dante_runtime_process(g_runtime)` in the poll loop, then
\* usleep, attempt++ and the code up to the next dante_runtime_process or
\* the callback's return.  When the SDK runs the network-changed callback
\* inside dante_runtime_process, the nested callback's first lines run here
\* and this frame waits at "resume" until it has returned.  `survive` is
\* the outcome of a write past the array and of processing a deleted DAPI's
\* runtime.
RebuildProcess(survive) ==
    /\ stack # << >>
    /\ Top.phase \in {"process", "resume"}
    /\ LET r == PollLoop(g_discovered_devices, g_device_count, openConns,
                         FALSE, [Top EXCEPT !.attempt = @ + 1])
       IN
       IF /\ Top.phase = "process"
          /\ g_runtime # NULL /\ g_runtime \notin dapiLive /\ ~survive THEN
           /\ crashed' = TRUE
           /\ UNCHANGED <<g_discovered_devices, g_device_count, openConns,
                          oob, stack, pending>>
       ELSE IF /\ Top.phase = "process"
               /\ g_runtime # NULL /\ Deliverable(g_runtime) THEN
           /\ pending' = FALSE
           /\ g_discovered_devices' = ZeroTable
           /\ g_device_count' = 0
           /\ stack' = StackOnEntry(SetTop([Top EXCEPT !.phase = "resume"]))
           /\ UNCHANGED <<openConns, oob, crashed>>
       ELSE IF r.oob /\ ~survive THEN
           /\ crashed' = TRUE
           /\ UNCHANGED <<g_discovered_devices, g_device_count, openConns,
                          oob, stack, pending>>
       ELSE
           /\ g_discovered_devices' = r.table
           /\ g_device_count' = r.count
           /\ openConns' = r.conns
           /\ oob' = (oob \/ r.oob)
           /\ stack' = IF r.at = "return"
                           THEN SubSeq(stack, 1, Len(stack) - 1)
                           ELSE SetTop([r.frame EXCEPT !.phase = "process"])
           /\ UNCHANGED <<pending, crashed>>
    /\ UNCHANGED <<g_dapi, g_runtime, g_env, g_devices, g_device, g_browse,
                   g_device_scan_active, g_background_scanning,
                   g_device_ready, g_error_buffer,
                   nDapi, dapiLive, mgrLive, sessions, net, call>>

(***************************************************************************)
(* The host's polling facade                                               *)
(***************************************************************************)
\* A refresh that runs the callback whether or not a session exists.
RefreshBeginWithoutSession ==
    /\ call.phase = "idle"
    /\ g_discovered_devices' = ZeroTable
    /\ g_device_count' = 0
    /\ stack' = StackOnEntry(stack)
    /\ call' = Running("refresh_scan", 0)
    /\ UNCHANGED <<g_dapi, g_runtime, g_env, g_devices, g_device, g_browse,
                   g_device_scan_active, g_background_scanning,
                   g_device_ready, g_error_buffer, provider, oob, crashed>>

\* A refresh whose callback asks for the network object first and returns,
\* the table untouched, when there is none.
RefreshBeginNetworkFirst ==
    /\ call.phase = "idle"
    /\ IF g_browse # NULL THEN
           /\ g_discovered_devices' =
                  IF net.has_network THEN ZeroTable ELSE g_discovered_devices
           /\ g_device_count' = IF net.has_network THEN 0 ELSE g_device_count
           /\ stack' = StackOnEntry(stack)
           /\ call' = Running("refresh_scan", 0)
       ELSE
           /\ call' = Returned("refresh_scan", 0, 612)
           /\ UNCHANGED <<g_discovered_devices, g_device_count, stack>>
    /\ UNCHANGED <<g_dapi, g_runtime, g_env, g_devices, g_device, g_browse,
                   g_device_scan_active, g_background_scanning,
                   g_device_ready, g_error_buffer, provider, oob, crashed>>

\* dante_refresh_device_scan up to the callback's first lines.
RefreshBegin ==
    /\ call.phase = "idle"
    /\ IF g_browse # NULL THEN
           /\ g_discovered_devices' = ZeroTable
           /\ g_device_count' = 0
           /\ stack' = StackOnEntry(stack)
           /\ call' = Running("refresh_scan", 0)
       ELSE
           /\ call' = Returned("refresh_scan", 0, 612)
           /\ UNCHANGED <<g_discovered_devices, g_device_count, stack>>
    /\ UNCHANGED <<g_dapi, g_runtime, g_env, g_devices, g_device, g_browse,
                   g_device_scan_active, g_background_scanning,
                   g_device_ready, g_error_buffer, provider, oob, crashed>>

\* dante_refresh_device_scan returns once the callback has.
RefreshReturn ==
    /\ call.phase = "running"
    /\ call.op = "refresh_scan"
    /\ stack = << >>
    /\ call' = Returned("refresh_scan", 0, 612)
    /\ UNCHANGED <<globals, provider, stack, oob, crashed>>

\* The pump entered with the runtime alone tested, not the scanning flag.
PumpBeginWhenInitialised ==
    /\ call.phase = "idle"
    /\ call' = IF g_runtime = NULL
                   THEN Returned("process_events", 0, 579)
                   ELSE Running("process_events", 0)
    /\ UNCHANGED <<globals, provider, stack, oob, crashed>>

\* dante_process_events_briefly up to its loop.
PumpBegin ==
    /\ call.phase = "idle"
    /\ call' = IF g_runtime = NULL \/ g_background_scanning = 0
                   THEN Returned("process_events", 0, 579)
                   ELSE Running("process_events", 0)
    /\ UNCHANGED <<globals, provider, stack, oob, crashed>>

\* One pass of the pump's loop: dante_runtime_process (its result ignored)
\* and usleep.  `survive` is the outcome of processing a deleted DAPI's
\* runtime.
PumpStep(survive) ==
    /\ call.phase = "running"
    /\ call.op = "process_events"
    /\ stack = << >>
    /\ call.arg < PumpIterations
    /\ IF g_runtime \notin dapiLive /\ ~survive THEN
           /\ crashed' = TRUE
           /\ UNCHANGED <<g_discovered_devices, g_device_count, pending,
                          stack, call>>
       ELSE IF Deliverable(g_runtime) THEN
           /\ pending' = FALSE
           /\ g_discovered_devices' = ZeroTable
           /\ g_device_count' = 0
           /\ stack' = StackOnEntry(stack)
           /\ call' = [call EXCEPT !.arg = @ + 1]
           /\ UNCHANGED crashed
       ELSE
           /\ call' = [call EXCEPT !.arg = @ + 1]
           /\ UNCHANGED <<g_discovered_devices, g_device_count, pending,
                          stack, crashed>>
    /\ UNCHANGED <<g_dapi, g_runtime, g_env, g_devices, g_device, g_browse,
                   g_device_scan_active, g_background_scanning,
                   g_device_ready, g_error_buffer,
                   nDapi, dapiLive, mgrLive, sessions, openConns, net, oob>>

\* dante_process_events_briefly returns after its last pass.
PumpReturn ==
    /\ call.phase = "running"
    /\ call.op = "process_events"
    /\ stack = << >>
    /\ call.arg >= PumpIterations
    /\ call' = Returned("process_events", 0, 591)
    /\ UNCHANGED <<globals, provider, stack, oob, crashed>>

\* A count call that empties the last-error buffer on its way out.
GetDiscoveredDeviceCountClearingError ==
    /\ call.phase = "idle"
    /\ call' = Returned("get_discovered_device_count", g_device_count, 620)
    /\ g_error_buffer' = ""
    /\ UNCHANGED <<g_dapi, g_runtime, g_env, g_devices, g_device, g_browse,
                   g_device_scan_active, g_background_scanning,
                   g_device_ready, g_discovered_devices, g_device_count,
                   provider, stack, oob, crashed>>

\* dante_get_discovered_device_count
dante_get_discovered_device_count ==
    /\ call.phase = "idle"
    /\ call' = Returned("get_discovered_device_count", g_device_count, 620)
    /\ UNCHANGED <<globals, provider, stack, oob, crashed>>

\* A list call that starts from an empty table, as a scanning call would.
GetCurrentDeviceListRescanning ==
    /\ call.phase = "idle"
    /\ call' = Returned("get_current_device_list", g_device_count, 600)
    /\ g_discovered_devices' = ZeroTable
    /\ g_device_count' = 0
    /\ UNCHANGED <<g_dapi, g_runtime, g_env, g_devices, g_device, g_browse,
                   g_device_scan_active, g_background_scanning,
                   g_device_ready, g_error_buffer, provider, stack, oob,
                   crashed>>

\* dante_get_current_device_list
dante_get_current_device_list ==
    /\ call.phase = "idle"
    /\ call' = Returned("get_current_device_list", g_device_count, 600)
    /\ UNCHANGED <<globals, provider, stack, oob, crashed>>

\* Indexes the host passes to dante_get_device_info: around both ends of
\* the valid range and of the table, and in the middle of the valid range.
HostIndices == {0 - 1, 0, g_device_count \div 2, g_device_count - 1,
                g_device_count, MAX_DEVICES - 1, MAX_DEVICES}

\* dante_get_device_info(index, info); has_info is FALSE for a NULL info.
\* Reading is_valid of a slot past the end of the array is undefined:
\* `survive` and `garbage` pick between a dead process, a zero and a
\* non-zero value.
dante_get_device_info(index, has_info, garbage, survive) ==
    /\ call.phase = "idle"
    /\ IF ~has_info THEN
           /\ g_error_buffer' = "Invalid info pointer"
           /\ call' = [Returned("get_device_info", -1, 632) EXCEPT !.arg = index]
           /\ UNCHANGED crashed
       ELSE IF index < 0 \/ index >= g_device_count THEN
           /\ g_error_buffer' = "Invalid device index: %d (available: 0-%d)"
           /\ call' = [Returned("get_device_info", -1, 638) EXCEPT !.arg = index]
           /\ UNCHANGED crashed
       ELSE IF index \notin Slots /\ ~survive THEN
           /\ crashed' = TRUE
           /\ UNCHANGED <<g_error_buffer, call>>
       ELSE IF (index \in Slots
                /\ LoadInfo(g_discovered_devices, index).is_valid = 0)
               \/ (index \notin Slots /\ ~garbage) THEN
           /\ g_error_buffer' = "Device at index %d is not valid"
           /\ call' = [Returned("get_device_info", -1, 643) EXCEPT !.arg = index]
           /\ UNCHANGED crashed
       ELSE
           /\ call' = [Returned("get_device_info", 0, 648) EXCEPT
                          !.arg = index,
                          !.info = <<LoadInfo(g_discovered_devices, index)>>]
           /\ UNCHANGED <<g_error_buffer, crashed>>
    /\ UNCHANGED <<g_dapi, g_runtime, g_env, g_devices, g_device, g_browse,
                   g_device_scan_active, g_background_scanning,
                   g_device_ready, g_discovered_devices, g_device_count,
                   provider, stack, oob>>

\* The host takes the result and is between calls again.
HostReturn ==
    /\ call.phase = "returned"
    /\ call' = Idle
    /\ UNCHANGED <<globals, provider, stack, oob, crashed>>

(***************************************************************************)
(* The provider                                                            *)
(***************************************************************************)
\* Devices join or leave while the host is between calls; a live browse
\* session gets a notification to deliver at the next event processing.
ProviderNetworkChanged(n) ==
    /\ call.phase = "idle"
    /\ net' = n
    /\ pending' = (sessions # {})
    /\ UNCHANGED <<globals, nDapi, dapiLive, mgrLive, sessions, openConns,
                   call, stack, oob, crashed>>

(***************************************************************************)
(* One iteration of the callback's device loop, statement by statement     *)
(* (lines 100-226), with no notification waiting for the session.          *)
(***************************************************************************)
\* Raw devices with every combination of metadata.
MetadataDevices ==
    {[DevQuick EXCEPT !.name = n, !.router_info = r, !.mf_id = mf,
                      !.model_id = mo, !.default_name = dn,
                      !.router_version = v] :
        n \in {Absent, <<"stagebox">>},
        r \in {Absent, <<"">>, <<"ULTIMOX4">>},
        mf \in {Absent, <<170, 187>>},
        mo \in {Absent, <<204, 221>>},
        dn \in {Absent, <<"">>, <<"Foo">>},
        v \in {Absent, <<4, 2, 1>>}}

\* Raw devices with every combination of answers to the resolution: the
\* state leaves RESOLVING at the first, second or last poll, or never.
ResolutionDevices ==
    {[DevActive EXCEPT !.open_ok = o, !.resolve_at = at, !.final_state = fs,
                       !.addr_ok = a, !.host = h] :
        o \in BOOLEAN,
        at \in {0, 1, max_wait_attempts - 1, max_wait_attempts},
        fs \in {"RESOLVED", "ACTIVE", "ERROR"},
        a \in BOOLEAN,
        h \in {83886090, 1677787146}}

ResolverDevices == MetadataDevices \cup ResolutionDevices \cup {DevNull}

\* How many devices the loop has gone through before the one followed.
PrecedingDevices == {0, 2}

\* The callback, entered from dante_refresh_device_scan on a scan started
\* on the first DAPI, has built the records of k quickly resolving devices
\* and stands at the head of the loop for the device after them.
InitResolver ==
    /\ g_dapi = 1 /\ g_runtime = 1 /\ g_env = 1 /\ g_devices = 1
    /\ g_device = NULL /\ g_browse = 1
    /\ g_device_scan_active = 1 /\ g_background_scanning = 1
    /\ g_device_ready = 0
    /\ g_error_buffer = ""
    /\ nDapi = 1 /\ dapiLive = {1} /\ mgrLive = {1}
    /\ sessions = {[id |-> 1, env |-> 1]}
    /\ openConns = 0
    /\ pending = FALSE
    /\ call = Running("refresh_scan", 0)
    /\ oob = FALSE /\ crashed = FALSE
    /\ \E k \in PrecedingDevices, d \in ResolverDevices :
           /\ net = Network([n \in 1..(k + 1) |->
                                IF n <= k THEN DevQuick ELSE d])
           /\ g_discovered_devices =
                  [e \in 1..k |-> Completed(ZeroDevice, DevQuick, e - 1)]
           /\ g_device_count = k
           /\ stack = <<[NewFrame EXCEPT !.i = k, !.device_count = k + 1]>>
    /\ resolver = ResolverAt("device")
    /\ held = NoRecord
    /\ local = LocalOff

\* The device of the iteration.
ResolverDevice == net.devices[Top.i + 1]

\* The slot `info` points to.
ResolverInfo == LoadInfo(g_discovered_devices, Top.slot)

\* What the iteration's steps leave alone.
ResolverFrame ==
    <<g_dapi, g_runtime, g_env, g_devices, g_device, g_browse,
      g_device_scan_active, g_background_scanning, g_device_ready,
      g_error_buffer, nDapi, dapiLive, mgrLive, sessions, net, pending,
      call, oob, crashed, held, local>>

\* A loop condition that lets one attempt too many through.
PollOnceMore(attempt) == attempt <= max_wait_attempts

\* The poll loop's condition: attempt < max_wait_attempts.
PollAgain(attempt) == attempt < max_wait_attempts

\* Poll-loop breaks that miss the ERROR state.
PollEndsWhenResolved(state) == state \in {"RESOLVED", "ACTIVE"}

\* The poll loop's breaks: RESOLVED, ACTIVE or ERROR ends the polling.
PollEnds(state) == state \in {"RESOLVED", "ACTIVE", "ERROR"}

\* Lines 100-151: a NULL handle is skipped; otherwise info points to the
\* slot g_device_count names and the metadata fields are filled.
ResolverFill ==
    /\ resolver.pc = "device"
    /\ IF ResolverDevice.handle = NULL THEN
           /\ resolver' = [resolver EXCEPT !.pc = "done"]
           /\ stack' = SetTop([Top EXCEPT !.i = @ + 1])
           /\ UNCHANGED g_discovered_devices
       ELSE
           /\ g_discovered_devices' =
                  StoreInfo(g_discovered_devices, g_device_count,
                            FillInfo(LoadInfo(g_discovered_devices,
                                              g_device_count),
                                     ResolverDevice, g_device_count))
           /\ stack' = SetTop([Top EXCEPT !.slot = g_device_count])
           /\ resolver' = [resolver EXCEPT !.pc = "open"]
    /\ UNCHANGED <<ResolverFrame, g_device_count, openConns>>

\* Lines 157-160 and 216-219: dr_device_open_remote; on failure the
\* sentinel address.
ResolverOpen ==
    /\ resolver.pc = "open"
    /\ IF Opens(ResolverDevice) THEN
           /\ openConns' = openConns + 1
           /\ resolver' = [resolver EXCEPT !.pc = "poll", !.opens = @ + 1]
           /\ stack' = SetTop([Top EXCEPT !.attempt = 0])
           /\ UNCHANGED g_discovered_devices
       ELSE
           /\ g_discovered_devices' =
                  StoreInfo(g_discovered_devices, Top.slot,
                            [ResolverInfo EXCEPT !.ip_address = "0.0.0.0"])
           /\ resolver' = [resolver EXCEPT !.pc = "finish"]
           /\ UNCHANGED <<openConns, stack>>
    /\ UNCHANGED <<ResolverFrame, g_device_count>>

\* Lines 168-179: state = dr_device_get_state(..) and the two breaks.
ResolverPoll ==
    /\ resolver.pc = "poll"
    /\ LET state == DeviceStateAt(ResolverDevice, Top.attempt) IN
       resolver' = [resolver EXCEPT
                       !.state = state,
                       !.polls = @ + 1,
                       !.pc = IF PollEnds(state) THEN "address"
                              ELSE "process"]
    /\ UNCHANGED <<ResolverFrame, g_discovered_devices, g_device_count,
                   openConns, stack>>

\* Lines 182-184: if (g_runtime) dante_runtime_process(g_runtime).
ResolverProcess ==
    /\ resolver.pc = "process"
    /\ resolver' = [resolver EXCEPT
                       !.processes = IF g_runtime # NULL THEN @ + 1 ELSE @,
                       !.pc = "sleep"]
    /\ UNCHANGED <<ResolverFrame, g_discovered_devices, g_device_count,
                   openConns, stack>>

\* Line 186, attempt++ and the loop's condition (line 167).
ResolverSleep ==
    /\ resolver.pc = "sleep"
    /\ stack' = SetTop([Top EXCEPT !.attempt = @ + 1])
    /\ resolver' = [resolver EXCEPT
                       !.sleeps = @ + 1,
                       !.pc = IF PollAgain(Top.attempt + 1) THEN "poll"
                              ELSE "address"]
    /\ UNCHANGED <<ResolverFrame, g_discovered_devices, g_device_count,
                   openConns>>

\* Lines 190-211: the address, or the sentinel.
ResolverAddress ==
    /\ resolver.pc = "address"
    /\ g_discovered_devices' =
           StoreInfo(g_discovered_devices, Top.slot,
                     [ResolverInfo EXCEPT
                         !.ip_address =
                             ResolvedAddress(ResolverDevice, resolver.state)])
    /\ resolver' = [resolver EXCEPT !.pc = "close"]
    /\ UNCHANGED <<ResolverFrame, g_device_count, openConns, stack>>

\* Line 214: dr_device_close(routing_device).
ResolverClose ==
    /\ resolver.pc = "close"
    /\ openConns' = ConnsAfterClose(openConns, resolver.state)
    /\ resolver' = [resolver EXCEPT !.pc = "finish", !.closes = @ + 1]
    /\ UNCHANGED <<ResolverFrame, g_discovered_devices, g_device_count,
                   stack>>

\* Lines 224-226: info->link_speed = -1, g_device_count++, i++.
ResolverFinish ==
    /\ resolver.pc = "finish"
    /\ g_discovered_devices' =
           StoreInfo(g_discovered_devices, Top.slot,
                     [ResolverInfo EXCEPT !.link_speed = 0 - 1])
    /\ g_device_count' = g_device_count + 1
    /\ stack' = SetTop([Top EXCEPT !.i = @ + 1])
    /\ resolver' = [resolver EXCEPT !.pc = "done"]
    /\ UNCHANGED <<ResolverFrame, openConns>>

NextResolver ==
    \/ ResolverFill
    \/ ResolverOpen
    \/ ResolverPoll
    \/ ResolverProcess
    \/ ResolverSleep
    \/ ResolverAddress
    \/ ResolverClose
    \/ ResolverFinish

ResolverSpec == InitResolver /\ [][NextResolver]_vars

(***************************************************************************)
(* Specification                                                           *)
(***************************************************************************)
\* The process has not died of undefined behaviour; the steps of Next take
\* an iteration of the device loop as a whole and keep no bookkeeping on it,
\* nor on what the host does with the records it has read, and no local
\* device is opened.
Alive == ~crashed /\ UNCHANGED <<resolver, held, local>>

Next ==
    \/ \E o \in InitOutcomes : Alive /\ dante_init_with_interface(o)
    \/ Alive /\ dante_cleanup
    \/ Alive /\ dante_get_last_error
    \/ \E o \in StartOutcomes, sv \in BOOLEAN :
           /\ Alive
           /\ (g_env \in dapiLive \/ g_env = NULL \/ g_browse # NULL) => sv
           /\ (g_env \notin dapiLive) => (o = "new_fails")
           /\ dante_start_device_scan(o, sv)
    \/ Alive /\ dante_stop_device_scan
    \/ Alive /\ RefreshBegin
    \/ Alive /\ RefreshReturn
    \/ Alive /\ PumpBegin
    \/ \E sv \in BOOLEAN : Alive /\ PumpStep(sv)
    \/ Alive /\ PumpReturn
    \/ \E sv \in BOOLEAN : Alive /\ RebuildRun(sv)
    \/ \E sv \in BOOLEAN : Alive /\ RebuildProcess(sv)
    \/ Alive /\ dante_get_discovered_device_count
    \/ Alive /\ dante_get_current_device_list
    \/ \E x \in HostIndices, g \in BOOLEAN, sv \in BOOLEAN :
           /\ Alive
           /\ (x \in Slots \/ x >= g_device_count) => (g /\ sv)
           /\ dante_get_device_info(x, TRUE, g, sv)
    \/ Alive /\ dante_get_device_info(0, FALSE, TRUE, TRUE)
    \/ Alive /\ HostReturn
    \/ \E n \in Networks : Alive /\ ProviderNetworkChanged(n)

Spec == Init /\ [][Next]_vars

(***************************************************************************)
(* The host keeps the record dante_get_device_info gave it                 *)
(***************************************************************************)
\* An output record that is a view of the table's slot instead of a copy.
InfoAssignedByReference(table, index) ==
    [filled |-> TRUE, by_value |-> FALSE, slot |-> index, rec |-> << >>]

\* *info = g_discovered_devices[index]: a structure assignment.  Every
\* field of dante_device_info_t is an int or a char array, so the caller's
\* structure shares nothing with the table.
InfoAssigned(table, index) ==
    [filled |-> TRUE, by_value |-> TRUE, slot |-> index,
     rec |-> <<LoadInfo(table, index)>>]

\* What the host reads in the record it holds.
HeldRecord ==
    IF held.by_value THEN held.rec
    ELSE <<LoadInfo(g_discovered_devices, held.slot)>>

\* A library initialised and scanning, its table still empty.
InitReader ==
    /\ g_dapi = 1 /\ g_runtime = 1 /\ g_env = 1 /\ g_devices = 1
    /\ g_device = NULL /\ g_browse = 1
    /\ g_device_scan_active = 1 /\ g_background_scanning = 1
    /\ g_device_ready = 0
    /\ g_error_buffer = ""
    /\ g_discovered_devices = ZeroTable
    /\ g_device_count = 0
    /\ nDapi = 1 /\ dapiLive = {1} /\ mgrLive = {1}
    /\ sessions = {[id |-> 1, env |-> 1]}
    /\ openConns = 0
    /\ net \in SmallNetworks
    /\ pending = FALSE
    /\ call = Idle
    /\ stack = << >>
    /\ oob = FALSE /\ crashed = FALSE
    /\ resolver = ResolverOff
    /\ held = NoRecord
    /\ local = LocalOff

\* dante_get_device_info with the host's own structure as `info`: a call
\* that returns 0 has assigned it, any other has not touched it.
ReaderGetDeviceInfo(index) ==
    /\ ~crashed
    /\ dante_get_device_info(index, TRUE, TRUE, TRUE)
    /\ held' = IF call'.ret = 0
                   THEN InfoAssigned(g_discovered_devices, index)
                   ELSE held
    /\ UNCHANGED <<resolver, local>>

NextReader ==
    \/ \E x \in HostIndices : ReaderGetDeviceInfo(x)
    \/ Alive /\ dante_start_device_scan("ok", TRUE)
    \/ Alive /\ dante_stop_device_scan
    \/ Alive /\ dante_cleanup
    \/ Alive /\ RefreshBegin
    \/ Alive /\ RefreshReturn
    \/ Alive /\ PumpBegin
    \/ Alive /\ PumpStep(TRUE)
    \/ Alive /\ PumpReturn
    \/ \E sv \in BOOLEAN : Alive /\ RebuildRun(sv)
    \/ \E sv \in BOOLEAN : Alive /\ RebuildProcess(sv)
    \/ Alive /\ HostReturn
    \/ \E n \in SmallNetworks : Alive /\ ProviderNetworkChanged(n)

ReaderSpec == InitReader /\ [][NextReader]_vars

(***************************************************************************)
(* The work of a rebuild                                                   *)
(***************************************************************************)
\* Calls of dr_device_open_remote and of dr_device_get_state.
Work(opens, polls) == [opens |-> opens, polls |-> polls]

\* The calls the device loop makes from its head at device f.i up to the
\* next call of dante_runtime_process or the end of the loop: every device
\* whose connection opens is polled once, the first poll ending the poll
\* loop of all of them but the last, which waits.
LoopWork(f) ==
    LET limit == IF f.device_count < MAX_DEVICES THEN f.device_count
                 ELSE MAX_DEVICES
        dev(k) == net.devices[k + 1]
        waiting == {k \in f.i..(limit - 1) : Waits(dev(k))}
        stop == IF waiting = {} THEN limit
                ELSE CHOOSE k \in waiting : \A j \in waiting : k <= j
        opened == {k \in f.i..(stop - 1) :
                      dev(k).handle # NULL /\ Opens(dev(k))}
                  \cup (IF stop < limit THEN {stop} ELSE {})
    IN Work(Cardinality(opened), Cardinality(opened))

\* The calls made from poll f.attempt of device f.i up to the next call of
\* dante_runtime_process or the end of the loop.
PollWork(f) ==
    LET state == DeviceStateAt(net.devices[f.i + 1], f.attempt)
        next == LoopWork([f EXCEPT !.i = @ + 1, !.attempt = 0])
    IN IF f.attempt >= max_wait_attempts THEN next
       ELSE IF state \in {"RESOLVED", "ACTIVE", "ERROR"}
           THEN Work(next.opens, next.polls + 1)
       ELSE Work(0, 1)

\* The calls counted since the outermost callback was entered.
Counted(work) ==
    resolver' = IF crashed' THEN resolver
                ELSE [resolver EXCEPT !.opens = @ + work.opens,
                                      !.polls = @ + work.polls]

\* What the steps of NextWork keep no account of.
Uncounted == ~crashed /\ UNCHANGED <<held, local>>

\* A library initialised and scanning, its table still empty.
InitWork ==
    /\ g_dapi = 1 /\ g_runtime = 1 /\ g_env = 1 /\ g_devices = 1
    /\ g_device = NULL /\ g_browse = 1
    /\ g_device_scan_active = 1 /\ g_background_scanning = 1
    /\ g_device_ready = 0
    /\ g_error_buffer = ""
    /\ g_discovered_devices = ZeroTable
    /\ g_device_count = 0
    /\ nDapi = 1 /\ dapiLive = {1} /\ mgrLive = {1}
    /\ sessions = {[id |-> 1, env |-> 1]}
    /\ openConns = 0
    /\ net \in Networks
    /\ pending = FALSE
    /\ call = Idle
    /\ stack = << >>
    /\ oob = FALSE /\ crashed = FALSE
    /\ resolver = ResolverOff
    /\ held = NoRecord
    /\ local = LocalOff

NextWork ==
    \/ Uncounted /\ RefreshBegin /\ resolver' = ResolverOff
    \/ Uncounted /\ RefreshReturn /\ UNCHANGED resolver
    \/ Uncounted /\ PumpBegin /\ UNCHANGED resolver
    \/ Uncounted /\ PumpStep(TRUE) /\ resolver' = ResolverOff
    \/ Uncounted /\ PumpReturn /\ UNCHANGED resolver
    \/ \E sv \in BOOLEAN :
           Uncounted /\ RebuildRun(sv) /\ Counted(LoopWork(Top))
    \/ \E sv \in BOOLEAN :
           /\ Uncounted
           /\ RebuildProcess(sv)
           /\ Counted(IF Top.phase = "process" /\ Deliverable(g_runtime)
                          THEN Work(0, 0)
                          ELSE PollWork([Top EXCEPT !.attempt = @ + 1]))
    \/ Uncounted /\ HostReturn /\ UNCHANGED resolver
    \/ \E n \in Networks :
           Uncounted /\ ProviderNetworkChanged(n) /\ UNCHANGED resolver

WorkSpec == InitWork /\ [][NextWork]_vars

(***************************************************************************)
(* The local device                                                        *)
(***************************************************************************)
\* `int timeout = 50` of dante_connect_local_device.
connect_timeout == 50

\* The local device handles the SDK gives out.
MaxLocalHandles == 2

\* The poll from which the local device shows ACTIVE; connect_timeout and
\* more is a device that does not get there while the call waits.
ConnectSchedules == {0, 1, 4, 5, connect_timeout - 1, connect_timeout}

\* `while (timeout-- > 0)` after `timeout` passes.
ConnectWaits(timeout) == timeout < connect_timeout

\* dante_connect_local_device up to its wait loop.  A failed
\* dr_device_open_local leaves g_device as it was.
ConnectBegin(open_ok, active_at) ==
    /\ call.phase = "idle"
    /\ IF g_devices = NULL THEN
           /\ g_error_buffer' = "Dante not initialized"
           /\ call' = Returned("connect_local_device", -1, 368)
           /\ UNCHANGED <<g_device, local>>
       ELSE IF ~(g_devices \in mgrLive /\ open_ok) THEN
           /\ g_error_buffer' = "Failed to connect to local device: %d"
           /\ call' = Returned("connect_local_device", -1, 378)
           /\ UNCHANGED <<g_device, local>>
       ELSE
           /\ local.open < MaxLocalHandles
           /\ g_device' = local.open + 1
           /\ local' = [open |-> local.open + 1, state |-> "RESOLVING",
                        active_at |-> active_at, polls |-> 0, sleeps |-> 0]
           /\ call' = Running("connect_local_device", 0)
           /\ UNCHANGED g_error_buffer
    /\ UNCHANGED <<g_dapi, g_runtime, g_env, g_devices, g_browse,
                   g_device_scan_active, g_background_scanning,
                   g_device_ready, g_discovered_devices, g_device_count,
                   provider, stack, oob, crashed, resolver, held>>

\* One pass of the wait loop: dr_device_get_state, then the return on
\* ACTIVE or sleep(1).  call.arg counts the passes made.
ConnectPoll ==
    /\ call.phase = "running"
    /\ call.op = "connect_local_device"
    /\ ConnectWaits(call.arg)
    /\ LET state == IF local.polls >= local.active_at THEN "ACTIVE"
                    ELSE "RESOLVING"
       IN IF state = "ACTIVE" THEN
              /\ g_device_ready' = 1
              /\ local' = [local EXCEPT !.state = state, !.polls = @ + 1]
              /\ call' = Returned("connect_local_device", 0, 388)
          ELSE
              /\ local' = [local EXCEPT !.state = state, !.polls = @ + 1,
                                        !.sleeps = @ + 1]
              /\ call' = [call EXCEPT !.arg = @ + 1]
              /\ UNCHANGED g_device_ready
    /\ UNCHANGED <<g_dapi, g_runtime, g_env, g_devices, g_device, g_browse,
                   g_device_scan_active, g_background_scanning,
                   g_error_buffer, g_discovered_devices, g_device_count,
                   provider, stack, oob, crashed, resolver, held>>

\* The loop ran out: "Device connection timeout".
ConnectTimeout ==
    /\ call.phase = "running"
    /\ call.op = "connect_local_device"
    /\ ~ConnectWaits(call.arg)
    /\ g_error_buffer' = "Device connection timeout"
    /\ call' = Returned("connect_local_device", -1, 394)
    /\ UNCHANGED <<g_dapi, g_runtime, g_env, g_devices, g_device, g_browse,
                   g_device_scan_active, g_background_scanning,
                   g_device_ready, g_discovered_devices, g_device_count,
                   provider, stack, oob, crashed, resolver, held, local>>

\* dante_is_device_connected() as an expression.
IsDeviceConnected == g_device # NULL /\ local.state = "ACTIVE"

\* What a query leaves alone.
QueryFrame ==
    <<g_dapi, g_runtime, g_env, g_devices, g_device, g_browse,
      g_device_scan_active, g_background_scanning, g_device_ready,
      g_discovered_devices, g_device_count, provider, stack, oob, crashed,
      resolver, held, local>>

\* dante_is_device_connected
dante_is_device_connected ==
    /\ call.phase = "idle"
    /\ call' = IF g_device = NULL THEN Returned("is_device_connected", 0, 402)
               ELSE Returned("is_device_connected",
                             IF local.state = "ACTIVE" THEN 1 ELSE 0, 405)
    /\ UNCHANGED <<g_error_buffer, QueryFrame>>

\* dante_get_device_name; has_name is FALSE when dr_device_get_name
\* returns NULL.
dante_get_device_name(has_name) ==
    /\ call.phase = "idle"
    /\ IF ~IsDeviceConnected THEN
           /\ g_error_buffer' = "Device not connected"
           /\ call' = Returned("get_device_name", -1, 417)
       ELSE IF ~has_name THEN
           /\ g_error_buffer' = "Failed to get device name"
           /\ call' = Returned("get_device_name", -1, 423)
       ELSE
           /\ call' = [Returned("get_device_name", 0, 427) EXCEPT
                          !.info = <<"local">>]
           /\ UNCHANGED g_error_buffer
    /\ UNCHANGED QueryFrame

\* The channels of the local device.
TxChannels == 2

RxChannels == 4

\* dante_get_tx_channel_count
dante_get_tx_channel_count ==
    /\ call.phase = "idle"
    /\ IF ~IsDeviceConnected THEN
           /\ g_error_buffer' = "Device not connected"
           /\ call' = Returned("get_tx_channel_count", -1, 441)
       ELSE
           /\ call' = Returned("get_tx_channel_count", TxChannels, 444)
           /\ UNCHANGED g_error_buffer
    /\ UNCHANGED QueryFrame

\* dante_get_rx_channel_count
dante_get_rx_channel_count ==
    /\ call.phase = "idle"
    /\ IF ~IsDeviceConnected THEN
           /\ g_error_buffer' = "Device not connected"
           /\ call' = Returned("get_rx_channel_count", -1, 454)
       ELSE
           /\ call' = Returned("get_rx_channel_count", RxChannels, 457)
           /\ UNCHANGED g_error_buffer
    /\ UNCHANGED QueryFrame

\* dante_get_tx_channel_name(channel_index, ..); has_name is FALSE when
\* dr_txchannel_get_canonical_name returns NULL.
dante_get_tx_channel_name(channel_index, has_name) ==
    /\ call.phase = "idle"
    /\ IF ~IsDeviceConnected THEN
           /\ g_error_buffer' = "Device not connected"
           /\ call' = [Returned("get_tx_channel_name", -1, 470) EXCEPT
                          !.arg = channel_index]
       ELSE IF channel_index < 0 \/ channel_index >= TxChannels THEN
           /\ g_error_buffer' = "Invalid TX channel index: %d"
           /\ call' = [Returned("get_tx_channel_name", -1, 476) EXCEPT
                          !.arg = channel_index]
       ELSE IF ~has_name THEN
           /\ g_error_buffer' = "Failed to get TX channel name"
           /\ call' = [Returned("get_tx_channel_name", -1, 482) EXCEPT
                          !.arg = channel_index]
       ELSE
           /\ call' = [Returned("get_tx_channel_name", 0, 486) EXCEPT
                          !.arg = channel_index, !.info = <<"tx">>]
           /\ UNCHANGED g_error_buffer
    /\ UNCHANGED QueryFrame

\* dante_cleanup with a local device: dr_device_close(g_device).
LocalCleanup ==
    /\ ~crashed
    /\ dante_cleanup
    /\ local' = IF g_device # NULL
                    THEN [local EXCEPT !.open = @ - 1, !.state = "NONE"]
                    ELSE local
    /\ UNCHANGED <<resolver, held>>

\* The local device changes its state while the host is between calls.
LocalDeviceChanges(state) ==
    /\ call.phase = "idle"
    /\ g_device # NULL
    /\ local.state # state
    /\ local' = [local EXCEPT !.state = state]
    /\ UNCHANGED <<globals, provider, call, stack, oob, crashed, resolver,
                   held>>

NextLocal ==
    \/ \E o \in InitOutcomes : Alive /\ dante_init_with_interface(o)
    \/ LocalCleanup
    \/ \E o \in StartOutcomes, sv \in BOOLEAN :
           /\ Alive
           /\ (g_env \in dapiLive \/ g_env = NULL \/ g_browse # NULL) => sv
           /\ (g_env \notin dapiLive) => (o = "new_fails")
           /\ dante_start_device_scan(o, sv)
    \/ Alive /\ dante_stop_device_scan
    \/ Alive /\ dante_get_last_error
    \/ \E ok \in BOOLEAN, at \in ConnectSchedules :
           /\ ~crashed
           /\ (g_devices = NULL \/ ~ok) => at = 0
           /\ ConnectBegin(ok, at)
    \/ ~crashed /\ ConnectPoll
    \/ ~crashed /\ ConnectTimeout
    \/ ~crashed /\ dante_is_device_connected
    \/ \E n \in BOOLEAN : ~crashed /\ dante_get_device_name(n)
    \/ ~crashed /\ dante_get_tx_channel_count
    \/ ~crashed /\ dante_get_rx_channel_count
    \/ \E x \in {0 - 1, 0, TxChannels}, n \in BOOLEAN :
           ~crashed /\ dante_get_tx_channel_name(x, n)
    \/ \E st \in {"ACTIVE", "ERROR"} : ~crashed /\ LocalDeviceChanges(st)
    \/ Alive /\ HostReturn

\* The library with its local device, the provider's device list empty.
InitLocal == Init /\ net = NoNetwork

LocalSpec == InitLocal /\ [][NextLocal]_vars

(***************************************************************************)
(* The whole life of the library: scanning, rebuilding, the local device   *)
(* and dante_cleanup                                                       *)
(***************************************************************************)
\* A provider with devices to find and no change of its list.
InitTeardown == Init /\ net = Network(<<DevQuick, DevActive, DevNever>>)

NextTeardown ==
    \/ NextLocal
    \/ Alive /\ RefreshBegin
    \/ Alive /\ RefreshReturn
    \/ \E sv \in BOOLEAN : Alive /\ RebuildRun(sv)
    \/ \E sv \in BOOLEAN : Alive /\ RebuildProcess(sv)

TeardownSpec == InitTeardown /\ [][NextTeardown]_vars

(***************************************************************************)
(* Properties                                                              *)
(***************************************************************************)
\* is_valid of slot i, as a reader of the table finds it.
SlotValid(i) == LoadInfo(g_discovered_devices, i).is_valid # 0

\* The host has just made the call `op`, which returned.
HostCalls(op) ==
    call.phase = "idle" /\ call'.phase = "returned" /\ call'.op = op

\* The outermost callback returns: the rebuild is complete.
RebuildCompletes == Len(stack) = 1 /\ stack' = << >>

\* C1: in every state the host can observe, slot i of the table is valid
\* exactly when 0 <= i < count, and dante_get_device_info has not answered
\* "Device at index %d is not valid" (the return at line 643) for an index
\* in [0, count).
ValidityMatchesCount ==
    HostObservable =>
        /\ \A i \in Slots : SlotValid(i) <=> (0 <= i /\ i < g_device_count)
        /\ (call.op = "get_device_info" /\ call.line = 643)
               => ~(0 <= call.arg /\ call.arg < g_device_count)

\* C2: dante_get_device_info(i, info) with a usable info succeeds when
\* 0 <= i < count, and otherwise fails with the index-out-of-range error
\* (the return at line 638) and writes nothing through info.
InfoAnswersByRange ==
    (call.phase = "returned" /\ call.op = "get_device_info" /\ call.line # 632)
        => IF 0 <= call.arg /\ call.arg < g_device_count
               THEN call.ret = 0
               ELSE /\ call.ret = 0 - 1
                    /\ call.line = 638
                    /\ g_error_buffer
                           = "Invalid device index: %d (available: 0-%d)"
                    /\ call.info = << >>

\* C3: the count stays within 0..MAX_DEVICES and nothing is written to a
\* slot past the end of the table.
CountWithinCapacity ==
    /\ 0 <= g_device_count
    /\ g_device_count <= MAX_DEVICES
    /\ ~oob

\* min(N, MAX_DEVICES) for the provider's N devices.
CapacityCount ==
    IF Len(net.devices) > MAX_DEVICES THEN MAX_DEVICES ELSE Len(net.devices)

\* Every entry of the provider's list is a device (no NULL entry).
EveryEntryIsADevice ==
    \A k \in 1..Len(net.devices) : net.devices[k].handle # NULL

\* C4: when a rebuild completes, the count is N for a provider reporting
\* N <= 32 devices and 32 for one reporting more.  Stated for a provider
\* whose every entry is a device, the case most favourable to the claim.
CountAfterRebuild ==
    [][(RebuildCompletes /\ EveryEntryIsADevice)
           => g_device_count' = CapacityCount]_vars

\* C5: at most one rebuild is in progress: the callback is never entered
\* while an earlier activation of it has not returned.
OneRebuildAtATime == Len(stack) <= 1

\* The table and the count one uninterrupted run of the callback leaves for
\* the provider's current device list.
CompleteSnapshot ==
    LET limit == CapacityCount
        order == SelectSeq([n \in 1..limit |-> n],
                           LAMBDA k : net.devices[k].handle # NULL)
        Final(d) == IF d.resolve_at < max_wait_attempts THEN d.final_state
                    ELSE "RESOLVING"
    IN [table |-> [e \in 1..Len(order) |->
                      LET d == net.devices[order[e]] IN
                      [FillInfo(ZeroDevice, d, e - 1) EXCEPT
                          !.ip_address =
                              IF Opens(d) THEN ResolvedAddress(d, Final(d))
                              ELSE "0.0.0.0",
                          !.link_speed = 0 - 1]],
        count |-> Len(order)]

\* C6: a rebuild is all-or-nothing.  What a completed rebuild leaves is the
\* complete snapshot of the provider's list, and between two states the host
\* can observe the table is the one it was or an empty one.
AllOrNothing ==
    [][/\ RebuildCompletes =>
              /\ g_discovered_devices' = CompleteSnapshot.table
              /\ g_device_count' = CompleteSnapshot.count
       /\ (HostObservable /\ HostObservable') =>
              \/ UNCHANGED <<g_discovered_devices, g_device_count>>
              \/ g_discovered_devices' = ZeroTable /\ g_device_count' = 0
      ]_vars

\* C7: dante_start_device_scan and dante_stop_device_scan are idempotent.
\* A start that returns success leaves the library initialised with exactly
\* one live session, and a start made in that situation returns success,
\* creates no session and changes nothing.  A stop returns success and
\* leaves no session, and a stop made with no scan changes nothing.
StartStopIdempotent ==
    [][/\ HostCalls("start_scan") =>
              /\ call'.ret = 0 =>
                     /\ g_env' # NULL /\ g_browse' # NULL
                     /\ Cardinality(sessions') = 1
              /\ (g_env # NULL /\ g_browse # NULL) =>
                     /\ call'.ret = 0
                     /\ UNCHANGED <<globals, provider>>
       /\ HostCalls("stop_scan") =>
              /\ call'.ret = 0
              /\ g_browse' = NULL /\ sessions' = {}
              /\ g_device_scan_active' = 0 /\ g_background_scanning' = 0
              /\ g_browse = NULL => UNCHANGED <<globals, provider>>
      ]_vars

\* A second start has returned by the already-scanning return (line 507)
\* with its one session live.
SecondStartReturned ==
    /\ call.phase = "returned" /\ call.op = "start_scan" /\ call.line = 507
    /\ call.ret = 0
    /\ Cardinality(sessions) = 1

\* C8: a start that fails at a provider step (db_browse_new, line 519;
\* db_browse_set_max_sockets, line 529; db_browse_start_config, line 542)
\* returns failure with the scanner inactive, no session handle kept and no
\* session live; and there is never more than one live session.
StartFailureUnwinds ==
    /\ Cardinality(sessions) <= 1
    /\ (call.phase = "returned" /\ call.op = "start_scan"
        /\ call.line \in {519, 529, 542}) =>
           /\ call.ret = 0 - 1
           /\ g_browse = NULL
           /\ sessions = {}
           /\ g_device_scan_active = 0 /\ g_background_scanning = 0

\* A start failed after it had created its session.
StartFailedAfterCreation ==
    /\ call.phase = "returned" /\ call.op = "start_scan"
    /\ call.line \in {529, 542}
    /\ call.ret = 0 - 1
    /\ g_error_buffer \in {"Failed to set max sockets: %d",
                           "Failed to start browse: %d"}

\* C9: device records are destroyed when scanning stops or the library is
\* initialised again: when dante_stop_device_scan returns from an active
\* scan, and when dante_init_with_interface returns, the count is 0 and no
\* slot is valid.
RecordsDestroyedOnStopAndInit ==
    [][(\/ HostCalls("stop_scan") /\ g_browse # NULL
        \/ HostCalls("init"))
           => /\ g_device_count' = 0
              /\ \A i \in Slots :
                     LoadInfo(g_discovered_devices', i).is_valid = 0]_vars

\* The frames of the callback that are inside their poll loop.
WaitingFrames(stk) ==
    {k \in 1..Len(stk) : stk[k].phase \in {"process", "resume"}}

\* C10: every transient connection is closed exactly once before the
\* rebuild moves to the next device (a rebuild holds one open connection
\* while it is in a poll loop and none otherwise), and when a rebuild
\* completes no transient connection is open.
ConnectionsClosed ==
    [][/\ openConns' = Cardinality(WaitingFrames(stack'))
       /\ Len(stack') < Len(stack) => openConns' = 0]_vars

\* The connection to the device opens, a poll within max_wait_attempts
\* finds it RESOLVED or ACTIVE, and dr_device_get_address succeeds.
Resolves(device) ==
    /\ g_devices \in mgrLive
    /\ device.open_ok
    /\ device.resolve_at < max_wait_attempts
    /\ device.final_state \in {"RESOLVED", "ACTIVE"}
    /\ device.addr_ok

\* C12: a device whose address is not resolved does not abort the rebuild.
\* When a rebuild completes for a provider list holding such a device (no
\* entry NULL), every device up to MAX_DEVICES has a valid record at its
\* index, the count is min(N, MAX_DEVICES), an unresolved device has
\* ip_address "0.0.0.0" and every other device its resolved address.
FailuresAbsorbed ==
    [][(/\ RebuildCompletes
        /\ EveryEntryIsADevice
        /\ \E k \in 1..CapacityCount : ~Resolves(net.devices[k]))
           => /\ g_device_count' = CapacityCount
              /\ \A k \in 1..CapacityCount :
                    LET info == LoadInfo(g_discovered_devices', k - 1)
                        device == net.devices[k]
                    IN /\ info.is_valid # 0
                       /\ info.ip_address =
                              IF Resolves(device)
                                  THEN FormatIPv4(ntohl(device.host))
                                  ELSE "0.0.0.0"]_vars

\* C19: when a rebuild completes, the record at index i has id i + 1 and
\* is the record of the i-th device handle of the provider's list (NULL
\* entries are no handles): the records are in provider order.
RecordsInProviderOrder ==
    [][RebuildCompletes
           => LET order == SelectSeq([n \in 1..Len(net.devices) |-> n],
                                     LAMBDA k : net.devices[k].handle # NULL)
              IN \A i \in 0..(g_device_count' - 1) :
                    LET info == LoadInfo(g_discovered_devices', i)
                    IN /\ info.id = i + 1
                       /\ i + 1 <= Len(order)
                       /\ info.name
                              = DeviceName(net.devices[order[i + 1]], i + 1)
                       /\ info.model = DeviceModel(net.devices[order[i + 1]])]_vars

\* No browse session exists: scanning is inactive.
ScanInactive == g_browse = NULL

\* C21: while scanning is inactive dante_process_events_briefly is a no-op.
\* It returns 0 by its first return statement (line 579), before any call
\* of dante_runtime_process, starts no rebuild, and leaves the table, the
\* count, the scan state, the last error and the provider as they were.
PumpIdleWhenInactive ==
    [][(call.phase = "idle" /\ call'.op = "process_events" /\ ScanInactive)
           => /\ call' = Returned("process_events", 0, 579)
              /\ stack' = << >>
              /\ UNCHANGED <<globals, provider, oob, crashed>>]_vars

\* The pump has returned in an initialised library that is not scanning
\* and whose table still holds records.
PumpSkipped ==
    /\ call.phase = "returned"
    /\ call.op = "process_events"
    /\ call.line = 579
    /\ ScanInactive
    /\ g_runtime # NULL
    /\ g_device_count > 0

\* The host is inside dante_process_events_briefly.
Pumping == call.phase = "running" /\ call.op = "process_events"

\* C22: while scanning is active, one call of dante_process_events_briefly
\* calls dante_runtime_process exactly PumpIterations (5) times and then
\* returns 0: the process survives every one of the calls, the call returns
\* only after the fifth, and nothing from the first call to the return
\* writes the last-error buffer.
PumpRunsFiveTimes ==
    [][(Pumping /\ ~ScanInactive)
           => /\ ~crashed'
              /\ g_error_buffer' = g_error_buffer
              /\ call'.phase = "returned"
                     => /\ call.arg = PumpIterations
                        /\ call'.ret = 0]_vars

\* The host is inside dante_refresh_device_scan.
Refreshing == call.phase = "running" /\ call.op = "refresh_scan"

\* C23: dante_refresh_device_scan returns 0 in every state.  Without a
\* browse session it leaves the table and the count as they are; with one,
\* what it leaves is the snapshot a network-changed callback leaves for the
\* provider's list (the complete snapshot of that list).
RefreshEqualsCallback ==
    [][/\ (call.phase = "idle" /\ call'.op = "refresh_scan" /\ ScanInactive)
              => /\ call' = Returned("refresh_scan", 0, 612)
                 /\ UNCHANGED <<g_discovered_devices, g_device_count>>
       /\ Refreshing
              => /\ ~crashed'
                 /\ call'.phase = "returned"
                        => /\ call'.ret = 0
                           /\ g_discovered_devices' = CompleteSnapshot.table
                           /\ g_device_count' = CompleteSnapshot.count]_vars

\* C24: from the return of dante_stop_device_scan to the next successful
\* dante_start_device_scan no rebuild happens.  While scanning is inactive
\* no browse session is left for a callback to run against, no activation
\* of the callback exists or begins, and no step of
\* dante_process_events_briefly or dante_refresh_device_scan changes the
\* table or the count.
NoRebuildWhileInactive ==
    [][ScanInactive
           => /\ sessions = {}
              /\ ~pending
              /\ stack = << >>
              /\ stack' = << >>
              /\ ({call.op, call'.op} \cap {"process_events", "refresh_scan"}
                      # {})
                     => UNCHANGED <<g_discovered_devices, g_device_count>>]_vars

\* A refresh has returned after the scan that filled the table was stopped.
RefreshedAfterStop ==
    /\ call.phase = "returned"
    /\ call.op = "refresh_scan"
    /\ ScanInactive
    /\ g_runtime # NULL
    /\ g_device_count > 0

\* C25: the read operations are pure.  dante_get_discovered_device_count
\* and dante_get_current_device_list both return g_device_count and change
\* nothing, and a dante_get_device_info that returns 0 changes nothing but
\* the caller's record, which becomes the slot's content.
ReadsArePure ==
    [][call.phase = "idle" =>
          /\ (call'.op \in {"get_discovered_device_count",
                            "get_current_device_list"})
                 => /\ call'.phase = "returned"
                    /\ call'.ret = g_device_count
                    /\ UNCHANGED <<globals, provider, stack, oob, crashed>>
          /\ (call'.op = "get_device_info" /\ call'.ret = 0)
                 => /\ call'.info
                           = <<LoadInfo(g_discovered_devices, call'.arg)>>
                    /\ UNCHANGED <<globals, provider, stack, oob, crashed>>
      ]_vars

\* dante_get_device_info has copied the last record of a table of three.
RecordRead ==
    /\ call.phase = "returned"
    /\ call.op = "get_device_info"
    /\ call.ret = 0
    /\ call.arg = 2
    /\ g_device_count = 3
    /\ call.info = <<LoadInfo(g_discovered_devices, 2)>>
    /\ call.info[1].is_valid # 0

\* The message the failure return at `line` writes before it returns (the
\* numbers it formats left as in the format string).
FailureMessage(line) ==
    CASE line = 256 -> "Failed to create DAPI: %d"
      [] line = 266 -> "Failed to get runtime/env"
      [] line = 276 -> "Failed to create device manager: %d"
      [] line = 368 -> "Dante not initialized"
      [] line = 378 -> "Failed to connect to local device: %d"
      [] line = 394 -> "Device connection timeout"
      [] line \in {417, 441, 454, 470} -> "Device not connected"
      [] line = 423 -> "Failed to get device name"
      [] line = 476 -> "Invalid TX channel index: %d"
      [] line = 482 -> "Failed to get TX channel name"
      [] line = 502 -> "Dante API not initialized"
      [] line = 519 -> "Failed to create browse object: %d"
      [] line = 529 -> "Failed to set max sockets: %d"
      [] line = 542 -> "Failed to start browse: %d"
      [] line = 632 -> "Invalid info pointer"
      [] line = 638 -> "Invalid device index: %d (available: 0-%d)"
      [] line = 643 -> "Device at index %d is not valid"

\* The step is the return of a host call with -1.
FailureReturn ==
    call.phase # "returned" /\ call'.phase = "returned" /\ call'.ret = 0 - 1

\* C28: the last-error buffer holds the message of the most recent failure.
\* A host call that returns -1 has written its own message, and no other
\* step writes the buffer: none of a call that returns success, and none of
\* a rebuild, whatever becomes of the devices it resolves.
LastErrorIsLatestFailure ==
    [][IF FailureReturn
           THEN g_error_buffer' = FailureMessage(call'.line)
           ELSE g_error_buffer' = g_error_buffer]_vars

\* dante_get_device_info has failed on an index past the count, the table
\* holding a device whose address was not resolved, and the buffer reads
\* the message of that failure.
IndexErrorRecorded ==
    /\ call.phase = "returned"
    /\ call.op = "get_device_info"
    /\ call.ret = 0 - 1
    /\ call.line = 638
    /\ g_device_count > 0
    /\ \E i \in Slots : /\ SlotValid(i)
                        /\ LoadInfo(g_discovered_devices, i).ip_address
                               = "0.0.0.0"
    /\ g_error_buffer = "Invalid device index: %d (available: 0-%d)"

\* C30: a rebuild ends after work linear in the number of devices.  When
\* the callback entered first returns, for a provider list of N devices,
\* dr_device_open_remote has been called at most min(N, MAX_DEVICES) times
\* and dr_device_get_state at most max_wait_attempts * min(N, MAX_DEVICES)
\* times since it was entered.
RebuildWorkLinear ==
    [][RebuildCompletes
           => /\ resolver'.opens <= CapacityCount
              /\ resolver'.polls <= max_wait_attempts * CapacityCount]_vars

FlagsAgreeWithSession ==
    IF g_browse # NULL
        THEN g_device_scan_active = 1 /\ g_background_scanning = 1
        ELSE g_device_scan_active = 0 /\ g_background_scanning = 0

\* C32: the two scan flags agree with each other and with the session
\* handle: both are 1 exactly when g_browse is not NULL.  Scanning becomes
\* active only in a dante_start_device_scan that returns 0 and inactive
\* only in dante_stop_device_scan or dante_cleanup.
FlagsFollowSession ==
    [][/\ FlagsAgreeWithSession
       /\ FlagsAgreeWithSession'
       /\ (ScanInactive /\ ~ScanInactive')
              => HostCalls("start_scan") /\ call'.ret = 0
       /\ (~ScanInactive /\ ScanInactive')
              => HostCalls("stop_scan") \/ HostCalls("cleanup")]_vars

\* A start has succeeded after an earlier one failed past db_browse_new.
StartedAfterFailedStart ==
    /\ call.phase = "returned"
    /\ call.op = "start_scan"
    /\ call.line = 549
    /\ g_error_buffer = "Failed to start browse: %d"
    /\ ~ScanInactive
    /\ g_device_scan_active = 1

\* C36: at most one DAPI instance, with its device manager, is live at
\* any time, and dante_cleanup deletes every instance an init created: when
\* it returns no DAPI instance, device manager or browse session is live.
OneDapiAtATime ==
    [][/\ Cardinality(dapiLive') <= 1
       /\ Cardinality(mgrLive') <= 1
       /\ HostCalls("cleanup")
              => dapiLive' = {} /\ mgrLive' = {} /\ sessions' = {}]_vars

\* The provider's indices below min(N, MAX_DEVICES) that carry a device
\* handle.
HandlesWithinCapacity ==
    {k \in 1..CapacityCount : net.devices[k].handle # NULL}

\* C37: a NULL device handle is skipped without leaving a hole.  When a
\* rebuild completes, the count is the number of handles that are not NULL
\* among the provider's first min(N, MAX_DEVICES) entries, the slots below
\* the count are valid and carry the ids 1..count in order, and no slot
\* from the count on is valid.
NullHandleLeavesNoHole ==
    [][RebuildCompletes
           => /\ g_device_count' = Cardinality(HandlesWithinCapacity)
              /\ \A i \in Slots :
                    LET info == LoadInfo(g_discovered_devices', i)
                    IN IF i < g_device_count'
                           THEN info.is_valid # 0 /\ info.id = i + 1
                           ELSE info.is_valid = 0]_vars

\* The callback is entered in this step: by dante_refresh_device_scan
\* with a session, or by the SDK delivering a notification.
CallbackEntered ==
    \/ call.phase = "idle" /\ call'.op = "refresh_scan" /\ ~ScanInactive
    \/ pending /\ ~pending' /\ call'.phase = "running"

\* C38: a rebuild that gets no network object from the provider
\* (db_browse_get_network returns NULL) ends with an empty snapshot.  The
\* callback returns at once, the count is 0 and every slot is invalid, and
\* that is what the host finds when a dante_refresh_device_scan that ran
\* the callback has returned.
NoNetworkEmptiesSnapshot ==
    [][~net.has_network
           => /\ CallbackEntered
                     => /\ stack' = stack
                        /\ g_device_count' = 0
                        /\ \A i \in Slots :
                              LoadInfo(g_discovered_devices', i).is_valid = 0
              /\ (Refreshing /\ call'.phase = "returned")
                     => /\ g_device_count' = 0
                        /\ \A i \in Slots :
                              LoadInfo(g_discovered_devices', i).is_valid = 0
      ]_vars

\* dante_refresh_device_scan ran the callback against a provider with no
\* network object and has returned with an empty table.
RefreshedWithoutNetwork ==
    /\ call.phase = "returned"
    /\ call.op = "refresh_scan"
    /\ ~ScanInactive
    /\ ~net.has_network
    /\ g_device_count = 0
    /\ g_discovered_devices = ZeroTable

(***************************************************************************)
(* Properties of one iteration (ResolverSpec)                              *)
(***************************************************************************)
\* The device the iteration is followed for: the last of the list.
FollowedDevice == net.devices[Len(net.devices)]

\* Its record: no entry before it is NULL, so its slot is its index.
FollowedInfo == LoadInfo(g_discovered_devices, Len(net.devices) - 1)

\* The iteration has ended and left a record.
RecordBuilt == resolver.pc = "done" /\ FollowedDevice.handle # NULL

\* Some poll within max_wait_attempts finds the connection RESOLVED or
\* ACTIVE.
ResolvesInTime(device) ==
    /\ device.resolve_at < max_wait_attempts
    /\ device.final_state \in {"RESOLVED", "ACTIVE"}

\* C11: the connection state of one device is polled at most 30
\* (max_wait_attempts) times; when no poll finds it RESOLVED or ACTIVE the
\* record's ip_address is "0.0.0.0"; and a device that stays RESOLVING is
\* left after exactly 30 polls and 30 sleeps.
ResolutionBounded ==
    /\ resolver.polls <= max_wait_attempts
    /\ resolver.sleeps <= max_wait_attempts
    /\ (RecordBuilt /\ ~ResolvesInTime(FollowedDevice))
           => FollowedInfo.ip_address = "0.0.0.0"
    /\ (resolver.pc \in {"address", "close", "finish", "done"}
        /\ resolver.opens = 1
        /\ FollowedDevice.resolve_at >= max_wait_attempts)
           => /\ resolver.polls = max_wait_attempts
              /\ resolver.sleeps = max_wait_attempts
              /\ resolver.state = "RESOLVING"

\* A device that never left RESOLVING has been given up.
ResolutionTimedOut ==
    /\ RecordBuilt
    /\ resolver.polls = max_wait_attempts
    /\ resolver.sleeps = max_wait_attempts
    /\ resolver.state = "RESOLVING"
    /\ FollowedInfo.ip_address = "0.0.0.0"

\* C13: the record's ip_address is a real address exactly when the
\* connection opened, a poll within max_wait_attempts found it RESOLVED or
\* ACTIVE and dr_device_get_address succeeded; in every other case,
\* RESOLVED or ACTIVE followed by a failed address read among them, it is
\* "0.0.0.0".
AddressOnlyWhenResolved ==
    RecordBuilt =>
        /\ (FollowedInfo.ip_address # "0.0.0.0") <=> Resolves(FollowedDevice)
        /\ (FollowedInfo.ip_address # "0.0.0.0")
               <=> /\ resolver.opens = 1
                   /\ resolver.polls <= max_wait_attempts
                   /\ resolver.state \in {"RESOLVED", "ACTIVE"}
                   /\ FollowedDevice.addr_ok

\* The connection resolved, and the address could not be read.
AddressReadFailed ==
    /\ RecordBuilt
    /\ resolver.opens = 1
    /\ resolver.state \in {"RESOLVED", "ACTIVE"}
    /\ ~FollowedDevice.addr_ok
    /\ FollowedInfo.ip_address = "0.0.0.0"

\* C14: once a poll has found the connection in the ERROR state, the
\* iteration polls the state no more, processes no more events and sleeps
\* no more, and the record it leaves has ip_address "0.0.0.0".
ErrorStopsPolling ==
    [][/\ resolver.state = "ERROR"
           => /\ resolver'.polls = resolver.polls
              /\ resolver'.processes = resolver.processes
              /\ resolver'.sleeps = resolver.sleeps
       /\ (resolver'.state = "ERROR" /\ RecordBuilt')
           => FollowedInfo'.ip_address = "0.0.0.0"]_vars

\* A connection that went to ERROR after it had been polled RESOLVING.
ErrorAfterPolling ==
    /\ RecordBuilt
    /\ resolver.state = "ERROR"
    /\ resolver.polls = 2
    /\ resolver.sleeps = 1
    /\ FollowedInfo.ip_address = "0.0.0.0"

\* C15: for a device whose connection cannot be opened the iteration
\* polls no state, processes no events, sleeps not once and closes nothing,
\* and the record it leaves has ip_address "0.0.0.0".
OpenFailureSkipsPolling ==
    (FollowedDevice.handle # NULL /\ ~FollowedDevice.open_ok)
        => /\ resolver.opens = 0
           /\ resolver.polls = 0
           /\ resolver.processes = 0
           /\ resolver.sleeps = 0
           /\ resolver.closes = 0
           /\ openConns = 0
           /\ RecordBuilt => FollowedInfo.ip_address = "0.0.0.0"

\* The record of a device whose connection did not open.
OpenFailed ==
    /\ RecordBuilt
    /\ ~FollowedDevice.open_ok
    /\ resolver.polls = 0
    /\ resolver.closes = 0
    /\ FollowedInfo.is_valid # 0
    /\ FollowedInfo.ip_address = "0.0.0.0"

\* Octet n of a 32-bit value, octet 0 the least significant: (v >> 8n) & 0xFF.
Octet(v, n) == (v \div (256 ^ n)) % 256

\* Four octets as decimal numbers with dots between them.
DottedQuad(a, b, c, d) ==
    FormatU(a) \o "." \o FormatU(b) \o "." \o FormatU(c) \o "." \o FormatU(d)

\* C16 as stated: the resolved ip_address is the four octets of the value v
\* the provider returned, most significant first.
AddressMostSignificantFirst ==
    (RecordBuilt /\ Resolves(FollowedDevice))
        => LET v == FollowedDevice.host
           IN FollowedInfo.ip_address
                  = DottedQuad(Octet(v, 3), Octet(v, 2), Octet(v, 1), Octet(v, 0))

\* C16: the resolved ip_address is the four octets of the value v the
\* provider returned in the order they lie in memory, which is network
\* order: on the little-endian target the least significant octet of v
\* comes first (0x0500000A gives "10.0.0.5").
AddressInNetworkOrder ==
    (RecordBuilt /\ Resolves(FollowedDevice))
        => LET v == FollowedDevice.host
           IN FollowedInfo.ip_address
                  = DottedQuad(Octet(v, 0), Octet(v, 1), Octet(v, 2), Octet(v, 3))

\* The provider returned 0x0500000A and the record reads "10.0.0.5".
AddressFormatted ==
    /\ RecordBuilt
    /\ Resolves(FollowedDevice)
    /\ FollowedDevice.host = 83886090
    /\ FollowedInfo.ip_address = "10.0.0.5"

\* db_browse_device_get_router_info gave a string that is not empty.
HasRouterInfo(device) ==
    device.router_info # Absent /\ device.router_info[1] # ""

\* Manufacturer id and model id are both there.
HasIdPair(device) == device.mf_id # Absent /\ device.model_id # Absent

\* C17: the model of a record follows the priority chain: a non-empty
\* router_info is the model whatever else is there; otherwise, with
\* manufacturer id and model id both present, the model is
\* "<mf text>-<model text>"; otherwise a present default_name is the model;
\* otherwise the model is "Unknown Model".
ModelFollowsChain ==
    RecordBuilt =>
        LET device == FollowedDevice
            model == FollowedInfo.model
        IN /\ HasRouterInfo(device) => model = device.router_info[1]
           /\ (~HasRouterInfo(device) /\ HasIdPair(device))
                  => model = dante_id64_to_dnssd_text(device.mf_id) \o "-"
                             \o dante_id64_to_dnssd_text(device.model_id)
           /\ (~HasRouterInfo(device) /\ ~HasIdPair(device)
               /\ device.default_name # Absent)
                  => model = device.default_name[1]
           /\ (~HasRouterInfo(device) /\ ~HasIdPair(device)
               /\ device.default_name = Absent)
                  => model = "Unknown Model"

\* router_info wins over an identifier pair and a default name.
RouterInfoWins ==
    /\ RecordBuilt
    /\ FollowedDevice.router_info = <<"ULTIMOX4">>
    /\ HasIdPair(FollowedDevice)
    /\ FollowedDevice.default_name = <<"Foo">>
    /\ FollowedInfo.model = "ULTIMOX4"

\* C18: the first source of the model that is not empty wins: the model of
\* a valid record is never the empty string, and with every source absent
\* or empty it is "Unknown Model".
ModelNeverEmpty ==
    (RecordBuilt /\ FollowedInfo.is_valid # 0)
        => /\ FollowedInfo.model # ""
           /\ (/\ ~HasRouterInfo(FollowedDevice)
               /\ ~HasIdPair(FollowedDevice)
               /\ FollowedDevice.default_name \in {Absent, <<"">>})
                  => FollowedInfo.model = "Unknown Model"

\* C20: for a device the provider gives no name, the record's name is
\* "Unknown Device N" with N the id of that record; for a device with a
\* name the record's name is that name.
NameOrPlaceholder ==
    RecordBuilt =>
        IF FollowedDevice.name = Absent
            THEN FollowedInfo.name
                     = "Unknown Device " \o FormatD(FollowedInfo.id)
            ELSE FollowedInfo.name = FollowedDevice.name[1]

\* The third record of a rebuild, for a device without a name.
PlaceholderName ==
    /\ RecordBuilt
    /\ FollowedDevice.name = Absent
    /\ FollowedInfo.id = 3
    /\ FollowedInfo.name = "Unknown Device 3"

(***************************************************************************)
(* Properties of the record the host holds (ReaderSpec)                    *)
(***************************************************************************)
\* C26: the record a successful dante_get_device_info gave the host is a
\* copy.  No step other than a later successful dante_get_device_info into
\* the same structure (no rebuild, refresh, stop or cleanup) changes what
\* the host reads in it.
RecordIsACopy ==
    [][(/\ held.filled
        /\ ~(/\ call.phase = "idle"
             /\ call'.op = "get_device_info"
             /\ call'.ret = 0))
           => HeldRecord' = HeldRecord]_vars

\* The host still reads the record of "stagebox" after dante_cleanup has
\* zeroed the table.
RecordOutlivesCleanup ==
    /\ held.filled
    /\ HeldRecord[1].is_valid # 0
    /\ HeldRecord[1].name = "stagebox"
    /\ g_dapi = NULL
    /\ g_device_count = 0
    /\ LoadInfo(g_discovered_devices, held.slot).is_valid = 0

(***************************************************************************)
(* Properties of the local device (LocalSpec)                              *)
(***************************************************************************)
\* No DAPI instance exists: the library is not initialised.
NotInitialised == dapiLive = {}

\* The queries on the local device.
DeviceQueries ==
    {"get_device_name", "get_tx_channel_count", "get_rx_channel_count",
     "get_tx_channel_name"}

\* C27: a query on the local device made while no handle is open or the
\* device is not ACTIVE returns -1, and dante_connect_local_device and
\* dante_start_device_scan called on a library that is not initialised
\* return -1.
QueriesFailBeforeInit ==
    [][call.phase = "idle" =>
          /\ (call'.op \in DeviceQueries /\ ~IsDeviceConnected)
                 => call'.ret = 0 - 1
          /\ NotInitialised
                 => /\ ~crashed'
                    /\ (call'.op \in {"connect_local_device", "start_scan"})
                           => /\ call'.phase = "returned"
                              /\ call'.ret = 0 - 1]_vars

\* C29: dante_connect_local_device waits a bounded 5 seconds at one poll a
\* second.  It polls the state of the local device at most 5 times, sleeps
\* one second after each poll that is not ACTIVE, returns 0 at the first
\* poll that is ACTIVE, and returns the timeout failure after the fifth
\* poll that is not.
ConnectWaitsFiveSeconds ==
    /\ local.polls <= 5
    /\ local.sleeps <= 5
    /\ (call.phase = "returned" /\ call.op = "connect_local_device")
           => /\ call.line = 388
                  => /\ call.ret = 0
                     /\ local.state = "ACTIVE"
                     /\ local.polls = local.active_at + 1
              /\ call.line = 394
                  => /\ call.ret = 0 - 1
                     /\ local.polls = 5
                     /\ local.sleeps = 5


\* C33: a failed dante_init_with_interface leaves the library
\* uninitialised.  When the call returns -1 no DAPI, environment, runtime
\* or device manager handle is held, and while no DAPI is held
\* dante_start_device_scan and dante_connect_local_device fail with their
\* not-initialised errors (the returns at lines 502 and 368) and the
\* process survives them.
FailedInitLeavesNothing ==
    [][/\ (HostCalls("init") /\ call'.ret = 0 - 1)
              => /\ g_dapi' = NULL
                 /\ g_env' = NULL
                 /\ g_runtime' = NULL
                 /\ g_devices' = NULL
       /\ (g_dapi = NULL /\ call.phase = "idle")
              => /\ ~crashed'
                 /\ HostCalls("start_scan")
                        => call'.ret = 0 - 1 /\ call'.line = 502
                 /\ HostCalls("connect_local_device")
                        => call'.ret = 0 - 1 /\ call'.line = 368]_vars

\* C34: when dante_connect_local_device returns -1 (the open failed or the
\* wait timed out) the library holds no local device handle, and at most
\* one local device handle is open at any time.
ConnectFailureHoldsNothing ==
    [][/\ (call.phase # "returned" /\ call'.phase = "returned"
           /\ call'.op = "connect_local_device" /\ call'.ret = 0 - 1)
              => g_device' = NULL
       /\ local'.open <= 1]_vars

(***************************************************************************)
(* Properties of dante_cleanup (TeardownSpec)                              *)
(***************************************************************************)
\* No handle is held, scanning is off, the table is empty: the globals but
\* for the last-error buffer are as they were when the process started.
NothingHeld ==
    /\ g_dapi = NULL /\ g_runtime = NULL /\ g_env = NULL
    /\ g_devices = NULL /\ g_device = NULL /\ g_browse = NULL
    /\ g_device_scan_active = 0 /\ g_background_scanning = 0
    /\ g_device_ready = 0
    /\ g_device_count = 0
    /\ \A i \in Slots : ~SlotValid(i)

\* C35: dante_cleanup returns the library to its initial state.  After it
\* scanning is inactive with no browse session, the count is 0, every slot
\* is invalid and no local device, device manager, DAPI, runtime or
\* environment handle is held; the session, the local device, the device
\* manager and the DAPI instance the handles named are destroyed, in this
\* order; and a dante_cleanup made when nothing is held changes nothing.
CleanupRestoresInitialState ==
    [][HostCalls("cleanup")
           => /\ NothingHeld'
              /\ g_discovered_devices' = ZeroTable
              /\ \A s \in sessions' : s.id # g_browse
              /\ g_device # NULL => local'.open = local.open - 1
              /\ g_devices \notin mgrLive'
              /\ g_dapi \notin dapiLive'
              /\ call'.info
                     = SelectSeq(<<"browse", "device", "devices", "dapi">>,
                                 LAMBDA object : CleanupHandle(object) # NULL)
              /\ NothingHeld
                     => /\ UNCHANGED <<globals, provider, stack, local>>
                        /\ call'.info = << >>]_vars

\* dante_cleanup has returned after destroying a session, a local device,
\* a device manager and a DAPI instance.
EverythingTornDown ==
    /\ call.phase = "returned"
    /\ call.op = "cleanup"
    /\ call.info = <<"browse", "device", "devices", "dapi">>
    /\ NothingHeld
    /\ sessions = {}

=========================================================================
